---- MODULE Spec2Model ----
(***************************************************************************)
(* Model of the Health Measures Chatbot server (src/server/index.js): the  *)
(* two in-memory stores, the request handlers of the REST API, the        *)
(* rule-based reply generator and the insights computation.                *)
(*                                                                         *)
(* JavaScript strings are TLA+ strings; String.includes, toLowerCase,      *)
(* replace, toUpperCase, template interpolation and parseFloat are         *)
(* computed character by character on them.                                *)
(*                                                                         *)
(* Every handler is synchronous, so Node runs it to completion before the  *)
(* next request: a handler is one action.  The only statement of a try     *)
(* block that can throw is the conversion of a stored value to a string    *)
(* (template interpolation, parseFloat), which throws a TypeError for an   *)
(* object that has no callable toString; the chat handler then answers 500 *)
(* from its catch branch and the insights handler, which has no try block, *)
(* is answered 500 by the default error handler of express.  new Date()    *)
(* reads the variable now, which never decreases; uuidv4() draws nextId.   *)
(* res is the last request together with its response.                     *)
(*                                                                         *)
(* The ChatBot component of the client (components/ChatBot.tsx) is the     *)
(* variable chatBot, its React state; a call of chatAPI is an element of   *)
(* requests until the component has consumed its outcome.  The handlers of *)
(* the server say nothing about the client variables: a specification of   *)
(* the server alone keeps them unchanged in every step.  The App component *)
(* and its HealthMetricsForm (the sources printed in client/TESTING.md)    *)
(* are the variables app and metricsForm.                                  *)
(***************************************************************************)
EXTENDS Integers, Sequences, FiniteSets, TLC

VARIABLES healthData, conversations, now, nextId, chatBot, requests,
          app, metricsForm, res

vars == <<healthData, conversations, now, nextId, chatBot, requests,
          app, metricsForm, res>>

\* the variables of the server
serverVars == <<healthData, conversations, now, nextId, res>>

\* the variables of the client: the state of the ChatBot component, the
\* requests of chatAPI and healthAPI that are in flight, the state of the App
\* component and the state of its HealthMetricsForm
clientVars == <<chatBot, requests, app, metricsForm>>

appVars == <<app, metricsForm>>

(***************************************************************************)
(* Bounds of the model.                                                    *)
(***************************************************************************)
\* records stored over all users
MaxRecords == 2
\* exchanges (user turn + bot turn) stored over all sessions
MaxExchanges == 1
\* exchanges stored in the runs of long conversations
MaxHistExchanges == 6
\* records stored in the runs that classify messages
MaxIntentRecords == 1
\* records stored in the runs that compose replies and insights
MaxReplyRecords == 3
\* records stored in the specification of the recommendations
MaxRecsRecords == 7

\* messages sent from the form of the ChatBot component
MaxChatBotSends == 2

\* the records the server stores in a run of the App
MaxAppRecords == 2

\* the records of a list the functions of the bot are applied to
MaxSortRecords == 3

\* the submissions of the form that are under way at a time
MaxAppSubmits == 1

\* last value of the clock, which starts at 1
MaxClock == 2

(***************************************************************************)
(* JavaScript string primitives.                                           *)
(***************************************************************************)
Min(a, b) == IF a < b THEN a ELSE b

Max(a, b) == IF a > b THEN a ELSE b

CharAt(s, i) == SubSeq(s, i, i)

\* String.prototype.includes
Includes(s, sub) ==
    \E i \in 1..(Len(s) - Len(sub) + 1) : SubSeq(s, i, i + Len(sub) - 1) = sub

\* String.prototype.indexOf, 1-based, 0 when absent
IndexOf(s, sub) ==
    IF Includes(s, sub)
    THEN CHOOSE i \in 1..(Len(s) - Len(sub) + 1) :
            /\ SubSeq(s, i, i + Len(sub) - 1) = sub
            /\ \A j \in 1..(i - 1) : SubSeq(s, j, j + Len(sub) - 1) # sub
    ELSE 0

\* the lower-case letter of an upper-case letter, other characters as they are
LowerChar(c) ==
    CASE c = "A" -> "a" [] c = "B" -> "b" [] c = "C" -> "c" [] c = "D" -> "d"
      [] c = "E" -> "e" [] c = "F" -> "f" [] c = "G" -> "g" [] c = "H" -> "h"
      [] c = "I" -> "i" [] c = "J" -> "j" [] c = "K" -> "k" [] c = "L" -> "l"
      [] c = "M" -> "m" [] c = "N" -> "n" [] c = "O" -> "o" [] c = "P" -> "p"
      [] c = "Q" -> "q" [] c = "R" -> "r" [] c = "S" -> "s" [] c = "T" -> "t"
      [] c = "U" -> "u" [] c = "V" -> "v" [] c = "W" -> "w" [] c = "X" -> "x"
      [] c = "Y" -> "y" [] c = "Z" -> "z"
      [] OTHER -> c

\* the upper-case letter of a lower-case letter, other characters as they are
UpperChar(c) ==
    CASE c = "a" -> "A" [] c = "b" -> "B" [] c = "c" -> "C" [] c = "d" -> "D"
      [] c = "e" -> "E" [] c = "f" -> "F" [] c = "g" -> "G" [] c = "h" -> "H"
      [] c = "i" -> "I" [] c = "j" -> "J" [] c = "k" -> "K" [] c = "l" -> "L"
      [] c = "m" -> "M" [] c = "n" -> "N" [] c = "o" -> "O" [] c = "p" -> "P"
      [] c = "q" -> "Q" [] c = "r" -> "R" [] c = "s" -> "S" [] c = "t" -> "T"
      [] c = "u" -> "U" [] c = "v" -> "V" [] c = "w" -> "W" [] c = "x" -> "X"
      [] c = "y" -> "Y" [] c = "z" -> "Z"
      [] OTHER -> c

RECURSIVE toLowerCase(_)
toLowerCase(s) ==
    IF s = "" THEN "" ELSE LowerChar(CharAt(s, 1)) \o toLowerCase(SubSeq(s, 2, Len(s)))

RECURSIVE toUpperCase(_)
toUpperCase(s) ==
    IF s = "" THEN "" ELSE UpperChar(CharAt(s, 1)) \o toUpperCase(SubSeq(s, 2, Len(s)))

\* String.prototype.replace with a string pattern: the first occurrence only
replace(s, pat, by) ==
    IF Includes(s, pat)
    THEN SubSeq(s, 1, IndexOf(s, pat) - 1) \o by
            \o SubSeq(s, IndexOf(s, pat) + Len(pat), Len(s))
    ELSE s

(***************************************************************************)
(* Measurement values: a number, a string or an object                     *)
(* (healthMetricSchema.value).  The numbers of the model are integers and  *)
(* its strings are not numerals (Joi would store a numeral as a number).   *)
(***************************************************************************)
Num(n) == [k |-> "num", n |-> n, s |-> ""]

Str(s) == [k |-> "str", n |-> 0, s |-> s]

Obj == [k |-> "obj", n |-> 0, s |-> ""]

\* an object that cannot be converted to a primitive, such as
\* {"toString": null}: its own toString is not a function and
\* Object.prototype.valueOf returns the object itself
ObjNoToString == [k |-> "objx", n |-> 0, s |-> ""]

\* does the conversion of v to a string (`${v}`, parseFloat(v)) throw
ToStringThrows(v) == v.k = "objx"

\* template interpolation `${v}` of a value
RECURSIVE NatToString(_)
NatToString(n) ==
    IF n < 10 THEN CharAt("0123456789", n + 1)
    ELSE NatToString(n \div 10) \o CharAt("0123456789", (n % 10) + 1)

IntToString(n) == IF n < 0 THEN "-" \o NatToString(0 - n) ELSE NatToString(n)

ToStr(v) ==
    CASE v.k = "num" -> IntToString(v.n)
      [] v.k = "str" -> v.s
      [] OTHER -> "[object Object]"

(***************************************************************************)
(* parseFloat: NaN, or the number read from the longest numeric prefix.    *)
(* Values of the model carry no fraction and no exponent, so the prefix is *)
(* optional white space, an optional sign and decimal digits.              *)
(***************************************************************************)
NaN == [nan |-> TRUE, n |-> 0]

Number(n) == [nan |-> FALSE, n |-> n]

IsDigit(c) == Includes("0123456789", c)

DigitVal(c) == IndexOf("0123456789", c) - 1

RECURSIVE TrimStart(_)
TrimStart(s) ==
    IF s # "" /\ CharAt(s, 1) = " " THEN TrimStart(SubSeq(s, 2, Len(s))) ELSE s

\* the value of the leading digits of s, acc the value read so far
RECURSIVE DigitsPrefix(_, _)
DigitsPrefix(s, acc) ==
    IF s # "" /\ IsDigit(CharAt(s, 1))
    THEN DigitsPrefix(SubSeq(s, 2, Len(s)), acc * 10 + DigitVal(CharAt(s, 1)))
    ELSE acc

ParseFloatString(str) ==
    LET t == TrimStart(str)
        signed == t # "" /\ CharAt(t, 1) \in {"-", "+"}
        body == IF signed THEN SubSeq(t, 2, Len(t)) ELSE t
    IN  IF body = "" \/ ~IsDigit(CharAt(body, 1)) THEN NaN
        ELSE IF signed /\ CharAt(t, 1) = "-" THEN Number(0 - DigitsPrefix(body, 0))
        ELSE Number(DigitsPrefix(body, 0))

\* parseFloat(v) first converts v to a string
parseFloat(v) == ParseFloatString(ToStr(v))

(***************************************************************************)
(* Validation schemas.                                                     *)
(***************************************************************************)
MetricTypes ==
    <<"weight", "height", "blood_pressure", "heart_rate", "blood_sugar",
      "temperature", "sleep_hours", "steps", "water_intake", "exercise_minutes">>

MetricTypeSet == {MetricTypes[i] : i \in DOMAIN MetricTypes}

Has(body, key) == key \in DOMAIN body

\* object spread { ...a, ...b }: the keys of both, b's value where both have one
Spread(a, b) ==
    [key \in (DOMAIN a) \cup (DOMAIN b) |-> IF key \in DOMAIN b THEN b[key] ELSE a[key]]

\* the metric schema without the enumeration of the types
healthMetricSchemaAnyType(body, t) ==
    IF ~Has(body, "type") THEN [error |-> "\"type\" is required"]
    ELSE IF ~Has(body, "value") THEN [error |-> "\"value\" is required"]
    ELSE IF ~Has(body, "unit") THEN [error |-> "\"unit\" is required"]
    ELSE IF body.unit = "" THEN [error |-> "\"unit\" is not allowed to be empty"]
    ELSE [error |-> "",
          value |-> IF Has(body, "timestamp") THEN body
                    ELSE Spread(body, [timestamp |-> t])]

\* healthMetricSchema.validate(body) at time t: the first error, or the value
\* with the timestamp default filled in
healthMetricSchema(body, t) ==
    IF ~Has(body, "type") THEN [error |-> "\"type\" is required"]
    ELSE IF body.type \notin MetricTypeSet
        THEN [error |-> "\"type\" must be one of the metric types"]
    ELSE IF ~Has(body, "value") THEN [error |-> "\"value\" is required"]
    ELSE IF ~Has(body, "unit") THEN [error |-> "\"unit\" is required"]
    ELSE IF body.unit = "" THEN [error |-> "\"unit\" is not allowed to be empty"]
    ELSE [error |-> "",
          value |-> IF Has(body, "timestamp") THEN body
                    ELSE Spread(body, [timestamp |-> t])]

\* chatMessageSchema.validate(body)
chatMessageSchema(body) ==
    IF ~Has(body, "message") THEN [error |-> "\"message\" is required"]
    ELSE IF body.message = "" THEN [error |-> "\"message\" is not allowed to be empty"]
    ELSE [error |-> "", value |-> body]

(***************************************************************************)
(* HealthChatbot.  The pictographs and bullets of the reply texts are      *)
(* written in ASCII.                                                       *)
(***************************************************************************)
greeting ==
    <<"Hello! I'm your health assistant. How can I help you track your health today?",
      "Hi there! I'm here to help you monitor your health metrics. What would you like to know?",
      "Welcome! I can help you track weight, blood pressure, heart rate, and more. How can I assist you?">>

weightAdvice ==
    "For healthy weight management: eat balanced meals, stay hydrated, exercise regularly, and get adequate sleep."

bloodPressureAdvice ==
    "To maintain healthy blood pressure: reduce sodium intake, exercise regularly, manage stress, and limit alcohol."

heartRateAdvice ==
    "To improve heart health: do cardio exercises, manage stress, get quality sleep, and maintain a healthy diet."

weightNoData ==
    "I don't have any weight data recorded yet. Would you like to log your weight?"

bloodPressureNoData ==
    "No blood pressure data found. Would you like to record your blood pressure?"

heartRateNoData ==
    "No heart rate data recorded. Would you like to log your heart rate?"

summaryNoData ==
    "You haven't recorded any health data yet. Start by logging some metrics like weight, blood pressure, or heart rate!"

helpText ==
    "I can help you:\n* Track health metrics (weight, blood pressure, heart rate, blood sugar, etc.)\n* Provide health tips and advice\n* Give you summaries of your health data\n* Answer questions about your health trends\n\nTry saying things like \"log my weight\" or \"show my blood pressure\" or \"give me a health summary\""

summaryHeader == "**Health Summary:**\n\n"

summaryFooter ==
    "\nKeep up the great work tracking your health! Regular monitoring helps you stay on top of your wellness goals."

\* array[0], in the place of array[array.length - 1]
firstOf(array) == array[1]

\* array[array.length - 1]
lastOf(array) == array[Len(array)]

\* the filter without its test of the type
OfAnyType(data, type) == data

\* healthData.filter(d => d.type === type)
OfType(data, type) == SelectSeq(data, LAMBDA d : d.type = type)

\* one key per record, as if every record opened a group of its own
TypeKeysPerRecord(data) == [i \in DOMAIN data |-> data[i].type]

\* the keys of typeGroups in the order Object.keys lists them: the distinct
\* types of data in order of first occurrence
RECURSIVE TypeKeys(_)
TypeKeys(data) ==
    IF data = <<>> THEN <<>>
    ELSE LET front == TypeKeys(SubSeq(data, 1, Len(data) - 1))
             type == data[Len(data)].type
         IN  IF \E i \in DOMAIN front : front[i] = type THEN front
             ELSE Append(front, type)

\* one line of the summary, for the group of records of one type
SummaryLine(type, group) ==
    LET latest == lastOf(group)
        count == Len(group)
    IN  "* **" \o toUpperCase(replace(type, "_", " ")) \o "**: "
            \o ToStr(latest.value) \o " " \o latest.unit
            \o " (" \o IntToString(count) \o " recordings)\n"

RECURSIVE SummaryLines(_, _)
SummaryLines(keys, data) ==
    IF keys = <<>> THEN ""
    ELSE SummaryLine(keys[1], OfType(data, keys[1])) \o SummaryLines(Tail(keys), data)

generateHealthSummary(data) ==
    summaryHeader \o SummaryLines(TypeKeys(data), data) \o summaryFooter

\* responses[Math.floor(Math.random() * responses.length)], r the index drawn
getRandomResponse(responses, r) == responses[r + 1]

fallbackReply(message) ==
    "I understand you're asking about \"" \o message
        \o "\". I can help you track health metrics, provide health advice, and analyze your data. Try asking me to \"log weight\", \"show blood pressure\", or \"give health summary\". What specific health information would you like to discuss?"

\* the greeting test with 'hello' as its only keyword
isGreetingHelloOnly(msg) == Includes(msg, "hello")

\* greeting detection
isGreeting(msg) == Includes(msg, "hello") \/ Includes(msg, "hi") \/ Includes(msg, "hey")

\* HealthChatbot.generateResponse(message, healthData), r the random draw
\* does generateResponse throw: the branch taken interpolates a value that
\* cannot be converted
generateResponseThrows(message, data) ==
    LET msg == toLowerCase(message)
        weightData == OfType(data, "weight")
        bpData == OfType(data, "blood_pressure")
        hrData == OfType(data, "heart_rate")
        keys == TypeKeys(data)
    IN  IF isGreeting(msg) THEN FALSE
        ELSE IF Includes(msg, "weight")
        THEN Len(weightData) > 0 /\ ToStringThrows(lastOf(weightData).value)
        ELSE IF Includes(msg, "blood pressure")
        THEN Len(bpData) > 0 /\ ToStringThrows(lastOf(bpData).value)
        ELSE IF Includes(msg, "heart rate")
        THEN Len(hrData) > 0 /\ ToStringThrows(lastOf(hrData).value)
        ELSE IF Includes(msg, "summary") \/ Includes(msg, "overview")
        THEN \E i \in DOMAIN keys : ToStringThrows(lastOf(OfType(data, keys[i])).value)
        ELSE FALSE

generateResponse(message, data, r) ==
    LET msg == toLowerCase(message)
        weightData == OfType(data, "weight")
        bpData == OfType(data, "blood_pressure")
        hrData == OfType(data, "heart_rate")
    IN  IF isGreeting(msg)
        THEN getRandomResponse(greeting, r)
        ELSE IF Includes(msg, "weight")
        THEN IF Len(weightData) > 0
             THEN LET latest == lastOf(weightData)
                  IN  "Your latest weight is " \o ToStr(latest.value) \o " "
                          \o latest.unit \o ". " \o weightAdvice
             ELSE weightNoData
        ELSE IF Includes(msg, "blood pressure")
        THEN IF Len(bpData) > 0
             THEN LET latest == lastOf(bpData)
                  IN  "Your latest blood pressure is " \o ToStr(latest.value)
                          \o ". " \o bloodPressureAdvice
             ELSE bloodPressureNoData
        ELSE IF Includes(msg, "heart rate")
        THEN IF Len(hrData) > 0
             THEN LET latest == lastOf(hrData)
                  IN  "Your latest heart rate is " \o ToStr(latest.value) \o " "
                          \o latest.unit \o ". " \o heartRateAdvice
             ELSE heartRateNoData
        ELSE IF Includes(msg, "summary") \/ Includes(msg, "overview")
        THEN IF Len(data) = 0 THEN summaryNoData ELSE generateHealthSummary(data)
        ELSE IF Includes(msg, "help") \/ Includes(msg, "what can you do")
        THEN helpText
        ELSE fallbackReply(message)

(***************************************************************************)
(* generateHealthInsights.                                                 *)
(***************************************************************************)
Abs(n) == IF n < 0 THEN 0 - n ELSE n

\* (num / den).toFixed(1) with the digits after the first decimal cut off
\* in the place of rounded
ToFixed1Truncating(num, den) ==
    IF den = 0
    THEN IF num > 0 THEN "Infinity" ELSE IF num < 0 THEN "-Infinity" ELSE "NaN"
    ELSE LET negative == num # 0 /\ ((num < 0) # (den < 0))
             tenths == (Abs(num) * 10) \div Abs(den)
         IN  (IF negative THEN "-" ELSE "") \o NatToString(tenths \div 10)
                 \o "." \o NatToString(tenths % 10)

\* (num / den).toFixed(1) for integers num and den: one decimal, the nearer
\* tenth, the larger one in magnitude on a tie; a division by zero gives the
\* texts of Infinity and NaN
ToFixed1(num, den) ==
    IF den = 0
    THEN IF num > 0 THEN "Infinity" ELSE IF num < 0 THEN "-Infinity" ELSE "NaN"
    ELSE LET negative == num # 0 /\ ((num < 0) # (den < 0))
             tenths == (2 * Abs(num) * 10 + Abs(den)) \div (2 * Abs(den))
         IN  (IF negative THEN "-" ELSE "") \o NatToString(tenths \div 10)
                 \o "." \o NatToString(tenths % 10)

\* sorted with x put behind every element whose timestamp is not later
RECURSIVE InsertByTimestamp(_, _)
InsertByTimestamp(sorted, x) ==
    IF sorted = <<>> THEN <<x>>
    ELSE IF sorted[Len(sorted)].timestamp - x.timestamp <= 0 THEN Append(sorted, x)
    ELSE Append(InsertByTimestamp(SubSeq(sorted, 1, Len(sorted) - 1), x),
                sorted[Len(sorted)])

\* the records left in the order of insertion
SortByInsertion(records) == records

\* records.sort((a, b) => new Date(a.timestamp) - new Date(b.timestamp)):
\* ascending by timestamp, records of equal timestamp keep their order
RECURSIVE SortByTimestamp(_)
SortByTimestamp(records) ==
    IF records = <<>> THEN <<>>
    ELSE InsertByTimestamp(SortByTimestamp(SubSeq(records, 1, Len(records) - 1)),
                           records[Len(records)])

\* the direction with 'increase' also for no change
directionNoStable(change) == IF change >= 0 THEN "increase" ELSE "decrease"

\* change > 0 ? 'increase' : change < 0 ? 'decrease' : 'stable'
direction(change) ==
    IF change > 0 THEN "increase" ELSE IF change < 0 THEN "decrease" ELSE "stable"

\* does the group of this type get an entry in insights.trends
HasTrend(data, type) ==
    LET records == SortByTimestamp(OfType(data, type))
    IN  /\ Len(records) >= 2
        /\ ~parseFloat(records[1].value).nan
        /\ ~parseFloat(records[Len(records)].value).nan

\* insights.trends[type]
Trend(data, type) ==
    LET records == SortByTimestamp(OfType(data, type))
        first == parseFloat(records[1].value).n
        last == parseFloat(records[Len(records)].value).n
        change == last - first
        percentChange == ToFixed1(change * 100, first)
    IN  [change |-> change,
         percentChange |-> percentChange,
         direction |-> direction(change),
         recordCount |-> Len(records)]

\* does generateHealthInsights throw: parseFloat of the first or last value of
\* a group of at least 2 records cannot convert it
generateHealthInsightsThrows(data) ==
    \E i \in DOMAIN data :
        LET records == SortByTimestamp(OfType(data, data[i].type))
        IN  /\ Len(records) >= 2
            /\ \/ ToStringThrows(records[1].value)
               \/ ToStringThrows(records[Len(records)].value)

trackMoreMetrics ==
    "Consider tracking more health metrics like blood pressure, heart rate, or sleep hours for a complete picture."

logMoreFrequently ==
    "Try to log health data more frequently for better trend analysis."

greatJob ==
    "Great job tracking your health! Consistency is key to achieving your wellness goals."

\* the recommendations with 'log more frequently' also for 7 records
recommendationsUpToSeven(metricsTracked, data) ==
    (IF Len(metricsTracked) < 3 THEN <<trackMoreMetrics>> ELSE <<>>)
    \o (IF Len(data) <= 7 THEN <<logMoreFrequently>> ELSE <<>>)
    \o <<greatJob>>

\* insights.recommendations: pushed in this order
recommendations(metricsTracked, data) ==
    (IF Len(metricsTracked) < 3 THEN <<trackMoreMetrics>> ELSE <<>>)
    \o (IF Len(data) < 7 THEN <<logMoreFrequently>> ELSE <<>>)
    \o <<greatJob>>

generateHealthInsights(data) ==
    LET metricsTracked == TypeKeys(data)
        typeSet == {metricsTracked[i] : i \in DOMAIN metricsTracked}
    IN  [totalRecords |-> Len(data),
         metricsTracked |-> metricsTracked,
         trends |-> [type \in {ty \in typeSet : HasTrend(data, ty)} |-> Trend(data, type)],
         recommendations |-> recommendations(metricsTracked, data)]

(***************************************************************************)
(* The stores and the request handlers.                                    *)
(***************************************************************************)
\* new Map()
EmptyMap == [key \in {} |-> <<>>]

\* map.get(key) || []
GetOrEmpty(map, key) == IF key \in DOMAIN map THEN map[key] ELSE <<>>

\* a store of one list: the value is set for every key
MapSetEveryKey(map, key, value) == [k \in (DOMAIN map) \cup {key} |-> value]

\* map.set(key, value)
MapSet(map, key, value) ==
    [k \in (DOMAIN map) \cup {key} |-> IF k = key THEN value ELSE map[k]]

\* array.unshift(...items), in the place of push
Unshift(array, items) == items \o array

\* array.push(items[0]), the other items dropped
PushFirstItem(array, items) == Append(array, items[1])

\* array.push(...items)
Push(array, items) == array \o items

\* array.slice(0, n), in the place of slice(-n)
SliceFirst(array, n) == SubSeq(array, 1, Min(n, Len(array)))

\* array.slice(-n)
SliceLast(array, n) == SubSeq(array, Max(1, Len(array) - n + 1), Len(array))

\* number of elements stored in a map of arrays
RECURSIVE TotalLen(_)
TotalLen(map) ==
    IF DOMAIN map = {} THEN 0
    ELSE LET key == CHOOSE k \in DOMAIN map : TRUE
         IN  Len(map[key]) + TotalLen([k \in (DOMAIN map) \ {key} |-> map[k]])

\* the values of a clock that can be set back
ClockReadsSetBack == 1..MaxClock

\* the values new Date() can return: the clock never runs backwards
ClockReads == now..Min(now + 1, MaxClock)

noRequest == [op |-> "none"]

\* the App component after its first render: the useState initial values,
\* the route of the router, and whether the effect of the first render has run
appInitial ==
    [mounted |-> FALSE, healthData |-> <<>>, loading |-> TRUE,
     serverStatus |-> "checking", route |-> "/"]

\* a HealthMetricsForm after its first render: the useState initial values
formInitial ==
    [isOpen |-> FALSE, isSubmitting |-> FALSE,
     formData |-> [type |-> "", value |-> "", unit |-> "", notes |-> ""]]

\* the props of the ChatBot component
ChatBotProps == [sessionId |-> "default", userId |-> "default"]

\* the component after its first render: the useState initial values;
\* mounted says whether the effect of the first render has run
useStateInitial ==
    [mounted |-> FALSE, messages |-> <<>>, inputMessage |-> "",
     isLoading |-> FALSE, isTyping |-> FALSE]

Init ==
    /\ healthData = EmptyMap
    /\ conversations = EmptyMap
    /\ now = 1
    /\ nextId = 1
    /\ res = noRequest
    /\ chatBot = useStateInitial
    /\ requests = <<>>
    /\ app = appInitial
    /\ metricsForm = formInitial

\* the read handler answering 404 for a user that was never written
GetHealthDataOrNotFound(param) ==
    LET userId == IF param # "" THEN param ELSE "default"
    IN  /\ res' = IF userId \in DOMAIN healthData
                  THEN [op |-> "getHealthData", req |-> param, status |-> 200,
                        body |-> healthData[userId]]
                  ELSE [op |-> "getHealthData", req |-> param, status |-> 404,
                        body |-> [error |-> "User not found"]]
        /\ UNCHANGED <<healthData, conversations, now, nextId>>

\* app.get('/api/health/data/:userId?'); param is "" when the path has none
GetHealthData(param) ==
    LET userId == IF param # "" THEN param ELSE "default"
        userData == GetOrEmpty(healthData, userId)
    IN  /\ res' = [op |-> "getHealthData", req |-> param, status |-> 200, body |-> userData]
        /\ UNCHANGED <<healthData, conversations, now, nextId>>

\* app.post('/api/health/data'); maxRecords bounds the records stored
PostHealthData(body, maxRecords) ==
    LET validated == healthMetricSchema(body, now)
    IN  IF validated.error # ""
        THEN /\ res' = [op |-> "postHealthData", req |-> body, status |-> 400,
                        body |-> [error |-> validated.error]]
             /\ UNCHANGED <<healthData, conversations, now, nextId>>
        ELSE /\ TotalLen(healthData) < maxRecords
             /\ \E t \in ClockReads :
                    LET value == validated.value
                        userId == IF Has(value, "userId") THEN value.userId ELSE "default"
                        healthMetric ==
                            Spread(Spread([id |-> nextId], value), [timestamp |-> t])
                    IN  /\ healthData' = MapSet(healthData, userId,
                                Push(GetOrEmpty(healthData, userId), <<healthMetric>>))
                        /\ res' = [op |-> "postHealthData", req |-> body, status |-> 201,
                                   body |-> [message |-> "Health metric recorded successfully",
                                             data |-> healthMetric]]
                        /\ now' = t
                        /\ nextId' = nextId + 1
                        /\ UNCHANGED conversations

\* app.post('/api/chat'); r is the random draw, maxExchanges bounds the
\* exchanges stored
Chat(body, r, maxExchanges) ==
    LET validated == chatMessageSchema(body)
    IN  IF validated.error # ""
        THEN /\ res' = [op |-> "chat", req |-> body, status |-> 400,
                        body |-> [error |-> validated.error]]
             /\ UNCHANGED <<healthData, conversations, now, nextId>>
        ELSE IF generateResponseThrows(validated.value.message,
                    GetOrEmpty(healthData,
                        IF Has(validated.value, "userId") THEN validated.value.userId
                        ELSE "default"))
        THEN /\ res' = [op |-> "chat", req |-> body, status |-> 500,
                        body |-> [error |-> "Internal server error"]]
             /\ UNCHANGED <<healthData, conversations, now, nextId>>
        ELSE /\ TotalLen(conversations) < 2 * maxExchanges
             /\ \E t1 \in ClockReads :
                \E t2 \in t1..Min(t1 + 1, MaxClock) :
                    LET value == validated.value
                        message == value.message
                        sessionId == IF Has(value, "sessionId") THEN value.sessionId ELSE "default"
                        userId == IF Has(value, "userId") THEN value.userId ELSE "default"
                        userData == GetOrEmpty(healthData, userId)
                        response == generateResponse(message, userData, r)
                        conversation ==
                            Push(GetOrEmpty(conversations, sessionId),
                                 << [type |-> "user", message |-> message, timestamp |-> t1],
                                    [type |-> "bot", message |-> response, timestamp |-> t2] >>)
                    IN  /\ conversations' = MapSet(conversations, sessionId, conversation)
                        /\ res' = [op |-> "chat", req |-> body, status |-> 200,
                                   body |-> [response |-> response,
                                             sessionId |-> sessionId,
                                             conversation |-> SliceLast(conversation, 10)]]
                        /\ now' = t2
                        /\ UNCHANGED <<healthData, nextId>>

typeError == "TypeError: Cannot convert object to primitive value"

\* the reply of the chat handler alone: chatbot.generateResponse applied to the
\* message and the records stored for the default user
GenerateResponse(message, r) ==
    LET userData == GetOrEmpty(healthData, "default")
        response == generateResponse(message, userData, r)
    IN  /\ res' = IF generateResponseThrows(message, userData)
                  THEN [op |-> "generateResponse", req |-> message, status |-> 500,
                        body |-> typeError]
                  ELSE [op |-> "generateResponse", req |-> message, status |-> 200,
                        body |-> response]
        /\ UNCHANGED <<healthData, conversations, now, nextId>>

\* app.get('/api/chat/history/:sessionId')
GetChatHistory(sessionId) ==
    LET conversation == GetOrEmpty(conversations, sessionId)
    IN  /\ res' = [op |-> "getChatHistory", req |-> sessionId, status |-> 200,
                   body |-> conversation]
        /\ UNCHANGED <<healthData, conversations, now, nextId>>

noDataMessage ==
    "No health data available for insights. Start tracking your health metrics!"

\* the insights handler without the test for an empty list
GetHealthInsightsOfAnyList(param) ==
    LET userId == IF param # "" THEN param ELSE "default"
        userData == GetOrEmpty(healthData, userId)
    IN  /\ res' = [op |-> "getHealthInsights", req |-> param, status |-> 200,
                   body |-> generateHealthInsights(userData)]
        /\ UNCHANGED <<healthData, conversations, now, nextId>>

\* the insights handler with the sort done on the stored array, latest first
GetHealthInsightsSortingStore(param) ==
    LET userId == IF param # "" THEN param ELSE "default"
        userData == GetOrEmpty(healthData, userId)
        latestFirst == [i \in DOMAIN userData |->
                            SortByTimestamp(userData)[Len(userData) + 1 - i]]
    IN  /\ res' = [op |-> "getHealthInsights", req |-> param, status |-> 200,
                   body |-> IF Len(userData) = 0
                            THEN [message |-> noDataMessage]
                            ELSE generateHealthInsights(userData)]
        /\ healthData' = IF Len(userData) = 0 THEN healthData
                         ELSE MapSet(healthData, userId, latestFirst)
        /\ UNCHANGED <<conversations, now, nextId>>

\* app.get('/api/health/insights/:userId?'); param is "" when the path has none
GetHealthInsights(param) ==
    LET userId == IF param # "" THEN param ELSE "default"
        userData == GetOrEmpty(healthData, userId)
    IN  /\ res' = IF Len(userData) # 0 /\ generateHealthInsightsThrows(userData)
                  THEN [op |-> "getHealthInsights", req |-> param, status |-> 500,
                        body |-> [error |-> typeError]]
                  ELSE [op |-> "getHealthInsights", req |-> param, status |-> 200,
                        body |-> IF Len(userData) = 0
                                 THEN [message |-> noDataMessage]
                                 ELSE generateHealthInsights(userData)]
        /\ UNCHANGED <<healthData, conversations, now, nextId>>

(***************************************************************************)
(* The ChatBot component and chatAPI.  A call of chatAPI is a record of    *)
(* requests: origin names the caller that awaits it, stage is "sent" until *)
(* the server has answered or the request has failed, ok tells a 2xx       *)
(* answer from a rejection, data is the answer, local holds the variables  *)
(* of the caller that its continuation uses.  Messages of the component    *)
(* carry no timestamp of their own in the model.                           *)
(***************************************************************************)
\* String.prototype.trim, for strings whose white space is the space
RECURSIVE TrimEnd(_)
TrimEnd(s) ==
    IF s # "" /\ CharAt(s, Len(s)) = " " THEN TrimEnd(SubSeq(s, 1, Len(s) - 1)) ELSE s

\* trim that leaves the trailing white space
trimStartOnly(s) == TrimStart(s)

trim(s) == TrimEnd(TrimStart(s))

RemoveAt(seq, i) == SubSeq(seq, 1, i - 1) \o SubSeq(seq, i + 1, Len(seq))

\* chatAPI.sendMessage(message, sessionId, userId): api.post('/chat', ...)
sendMessage(origin, message, local) ==
    [origin |-> origin, api |-> "sendMessage",
     body |-> [message |-> message, sessionId |-> ChatBotProps.sessionId,
               userId |-> ChatBotProps.userId],
     stage |-> "sent", ok |-> FALSE, data |-> <<>>, local |-> local]

\* chatAPI.getConversationHistory(sessionId): api.get(`/chat/history/${sessionId}`)
getConversationHistory(origin) ==
    [origin |-> origin, api |-> "getConversationHistory",
     body |-> ChatBotProps.sessionId,
     stage |-> "sent", ok |-> FALSE, data |-> <<>>, local |-> <<>>]

\* the effect of the first render: loadHistory() up to its await, then
\* sendInitialGreeting() up to its await
Mount ==
    /\ ~chatBot.mounted
    /\ chatBot' = [chatBot EXCEPT !.mounted = TRUE, !.isLoading = TRUE]
    /\ requests' = requests \o <<getConversationHistory("loadHistory")>>
                        \o (IF Len(chatBot.messages) = 0
                            THEN <<sendMessage("sendInitialGreeting", "Hello", <<>>)>>
                            ELSE <<>>)
    /\ UNCHANGED serverVars

\* the server handles the POST /chat of request i
ServeSendMessage(i, r, maxExchanges) ==
    /\ requests[i].api = "sendMessage"
    /\ requests[i].stage = "sent"
    /\ Chat(requests[i].body, r, maxExchanges)
    /\ requests' = [requests EXCEPT ![i].stage = "answered",
                                    ![i].ok = (res'.status = 200),
                                    ![i].data = res'.body]
    /\ UNCHANGED chatBot

\* the server handles the GET /chat/history/:sessionId of request i
ServeGetConversationHistory(i) ==
    /\ requests[i].api = "getConversationHistory"
    /\ requests[i].stage = "sent"
    /\ GetChatHistory(requests[i].body)
    /\ requests' = [requests EXCEPT ![i].stage = "answered",
                                    ![i].ok = (res'.status = 200),
                                    ![i].data = res'.body]
    /\ UNCHANGED chatBot

\* request i fails before the server sees it (no connection, timeout)
NetworkError(i) ==
    /\ requests[i].stage = "sent"
    /\ requests' = [requests EXCEPT ![i].stage = "answered", ![i].ok = FALSE]
    /\ UNCHANGED <<serverVars, chatBot>>

\* loadHistory after its await: setMessages(history) or the catch, and the
\* finally
loadHistoryDone(i) ==
    /\ requests[i].origin = "loadHistory"
    /\ requests[i].stage = "answered"
    /\ chatBot' = [chatBot EXCEPT
            !.messages = IF requests[i].ok THEN requests[i].data ELSE @,
            !.isLoading = FALSE]
    /\ requests' = RemoveAt(requests, i)
    /\ UNCHANGED serverVars

\* sendInitialGreeting after await chatAPI.sendMessage('Hello', ...): it asks
\* for the history, or ends in its catch
sendInitialGreetingSent(i) ==
    /\ requests[i].origin = "sendInitialGreeting"
    /\ requests[i].api = "sendMessage"
    /\ requests[i].stage = "answered"
    /\ requests' = IF requests[i].ok
                   THEN [requests EXCEPT ![i] = getConversationHistory("sendInitialGreeting")]
                   ELSE RemoveAt(requests, i)
    /\ UNCHANGED <<serverVars, chatBot>>

\* sendInitialGreeting after await chatAPI.getConversationHistory(sessionId)
sendInitialGreetingDone(i) ==
    /\ requests[i].origin = "sendInitialGreeting"
    /\ requests[i].api = "getConversationHistory"
    /\ requests[i].stage = "answered"
    /\ chatBot' = [chatBot EXCEPT
            !.messages = IF requests[i].ok THEN requests[i].data ELSE @]
    /\ requests' = RemoveAt(requests, i)
    /\ UNCHANGED serverVars

\* onChange of the input, which is rendered when isLoading is false and is
\* disabled while isTyping
setInputMessage(text) ==
    /\ chatBot.mounted
    /\ ~chatBot.isLoading
    /\ ~chatBot.isTyping
    /\ chatBot' = [chatBot EXCEPT !.inputMessage = text]
    /\ UNCHANGED <<serverVars, requests>>

errorMessage == "Sorry, I encountered an error. Please try again."

\* onSubmit of the form, up to the await; maxMessages bounds the messages
\* displayed.  The request keeps the closure's tempUserMessage and, for the
\* properties, the list that was displayed when the form was submitted
handleSendMessage(maxMessages) ==
    /\ chatBot.mounted
    /\ ~chatBot.isLoading
    /\ Len(chatBot.messages) < maxMessages
    /\ IF trim(chatBot.inputMessage) = "" \/ chatBot.isTyping
       THEN UNCHANGED vars
       ELSE LET userMessage == trim(chatBot.inputMessage)
                tempUserMessage == [type |-> "user", message |-> userMessage]
            IN  /\ chatBot' = [chatBot EXCEPT
                        !.inputMessage = "",
                        !.isTyping = TRUE,
                        !.messages = Append(@, tempUserMessage)]
                /\ requests' = Append(requests,
                        sendMessage("handleSendMessage", userMessage,
                            [tempUserMessage |-> tempUserMessage,
                             displayed |-> chatBot.messages]))
                /\ UNCHANGED serverVars

\* handleSendMessage after its await with a finally that runs only after a
\* success
handleSendMessageDoneNoFinally(i) ==
    /\ requests[i].origin = "handleSendMessage"
    /\ requests[i].stage = "answered"
    /\ chatBot' =
            IF requests[i].ok
            THEN [chatBot EXCEPT
                    !.messages = SubSeq(@, 1, Len(@) - 1)
                        \o << requests[i].local.tempUserMessage,
                              [type |-> "bot", message |-> requests[i].data.response] >>,
                    !.isTyping = FALSE]
            ELSE [chatBot EXCEPT
                    !.messages = Append(@, [type |-> "bot", message |-> errorMessage])]
    /\ requests' = RemoveAt(requests, i)
    /\ UNCHANGED serverVars

\* handleSendMessage after its await: the bot message replaces the list's last
\* element by the user message and the reply, or the catch appends the error
\* message; the finally resets isTyping
handleSendMessageDone(i) ==
    /\ requests[i].origin = "handleSendMessage"
    /\ requests[i].stage = "answered"
    /\ chatBot' =
            IF requests[i].ok
            THEN [chatBot EXCEPT
                    !.messages = SubSeq(@, 1, Len(@) - 1)
                        \o << requests[i].local.tempUserMessage,
                              [type |-> "bot", message |-> requests[i].data.response] >>,
                    !.isTyping = FALSE]
            ELSE [chatBot EXCEPT
                    !.messages = Append(@, [type |-> "bot", message |-> errorMessage]),
                    !.isTyping = FALSE]
    /\ requests' = RemoveAt(requests, i)
    /\ UNCHANGED serverVars

(***************************************************************************)
(* The App component, its pages and healthAPI.  The requests of healthAPI  *)
(* are records of requests like those of chatAPI.  A page is rendered when *)
(* the state of App changes or the route changes; the ChatBot of the home  *)
(* page is left out of the specifications of App.                          *)
(***************************************************************************)
\* app.get('/api/health')
GetHealth ==
    /\ res' = [op |-> "getHealth", req |-> "", status |-> 200,
               body |-> [message |-> "Health Measures Chatbot API is running!"]]
    /\ UNCHANGED <<healthData, conversations, now, nextId>>

\* const userId = 'default' of App
AppUserId == "default"

\* checkServerHealth(): api.get('/health')
checkServerHealth(origin) ==
    [origin |-> origin, api |-> "checkServerHealth", body |-> "",
     stage |-> "sent", ok |-> FALSE, data |-> <<>>, local |-> <<>>]

\* healthAPI.getHealthData(userId): api.get(`/health/data/${userId}`)
getHealthData(origin) ==
    [origin |-> origin, api |-> "getHealthData", body |-> AppUserId,
     stage |-> "sent", ok |-> FALSE, data |-> <<>>, local |-> <<>>]

\* healthAPI.addHealthMetric(metric, userId): api.post('/health/data', ...)
addHealthMetric(origin, metric, local) ==
    [origin |-> origin, api |-> "addHealthMetric",
     body |-> Spread(metric, [userId |-> AppUserId]),
     stage |-> "sent", ok |-> FALSE, data |-> <<>>, local |-> local]

\* healthData.sort((a, b) => b.timestamp - a.timestamp) with x put before
\* every element whose timestamp is earlier
RECURSIVE InsertLatestFirst(_, _)
InsertLatestFirst(sorted, x) ==
    IF sorted = <<>> THEN <<x>>
    ELSE IF sorted[Len(sorted)].timestamp - x.timestamp >= 0 THEN Append(sorted, x)
    ELSE Append(InsertLatestFirst(SubSeq(sorted, 1, Len(sorted) - 1), x),
                sorted[Len(sorted)])

\* the array after healthData.sort(...) of HomePage: latest first, records of
\* equal timestamp in their order
RECURSIVE SortLatestFirst(_)
SortLatestFirst(records) ==
    IF records = <<>> THEN <<>>
    ELSE InsertLatestFirst(SortLatestFirst(SubSeq(records, 1, Len(records) - 1)),
                           records[Len(records)])

\* the healthData array of App after HomePage has rendered it: the sort is
\* done in place on the array of the state
HomePage(records) == SortLatestFirst(records)

\* does App render its routes
PagesRendered(a) == a.mounted /\ ~a.loading /\ a.serverStatus # "offline"

\* the state of App after the render that follows a change of it
Render(a) ==
    IF PagesRendered(a) /\ a.route = "/"
    THEN [a EXCEPT !.healthData = HomePage(@)]
    ELSE a

\* the effect of the first render of App: initializeApp() up to its await
AppMount ==
    /\ ~app.mounted
    /\ app' = [app EXCEPT !.mounted = TRUE]
    /\ requests' = Append(requests, checkServerHealth("initializeApp"))
    /\ UNCHANGED <<serverVars, chatBot, metricsForm>>

\* the server handles the GET /health of request i; its callers do not read
\* the body of the answer
ServeCheckServerHealth(i) ==
    /\ requests[i].api = "checkServerHealth"
    /\ requests[i].stage = "sent"
    /\ requests' = [requests EXCEPT ![i].stage = "answered", ![i].ok = TRUE]
    /\ GetHealth
    /\ res'.status = 200
    /\ UNCHANGED <<chatBot, app, metricsForm>>

\* the server handles the GET /health/data/:userId of request i: the request
\* is answered with the status and the body of the response
ServeGetHealthData(i) ==
    /\ requests[i].api = "getHealthData"
    /\ requests[i].stage = "sent"
    /\ requests' = [requests EXCEPT ![i].stage = "answered", ![i].ok = TRUE,
                        ![i].data = GetOrEmpty(healthData, requests[i].body)]
    /\ GetHealthData(requests[i].body)
    /\ res'.status = 200
    /\ res'.body = requests'[i].data
    /\ UNCHANGED <<chatBot, app, metricsForm>>

\* the server handles the POST /health/data of request i
ServeAddHealthMetric(i, maxRecords) ==
    /\ requests[i].api = "addHealthMetric"
    /\ requests[i].stage = "sent"
    /\ PostHealthData(requests[i].body, maxRecords)
    /\ requests' = [requests EXCEPT ![i].stage = "answered",
                                    ![i].ok = (res'.status = 201),
                                    ![i].data = res'.body]
    /\ UNCHANGED <<chatBot, app, metricsForm>>

\* initializeApp after await checkServerHealth(): setServerStatus('online')
\* and the request of the data, or the catch and the finally
checkServerHealthDone(i) ==
    /\ requests[i].origin = "initializeApp"
    /\ requests[i].api = "checkServerHealth"
    /\ requests[i].stage = "answered"
    /\ IF requests[i].ok
       THEN /\ app' = Render([app EXCEPT !.serverStatus = "online"])
            /\ requests' = [requests EXCEPT ![i] = getHealthData("initializeApp")]
       ELSE /\ app' = Render([app EXCEPT !.serverStatus = "offline", !.loading = FALSE])
            /\ requests' = RemoveAt(requests, i)
    /\ UNCHANGED <<serverVars, chatBot, metricsForm>>

\* initializeApp after await healthAPI.getHealthData(userId) with the catch
\* that leaves loading as it is
initializeAppDoneNoFinally(i) ==
    /\ requests[i].origin = "initializeApp"
    /\ requests[i].api = "getHealthData"
    /\ requests[i].stage = "answered"
    /\ app' = IF requests[i].ok
              THEN Render([app EXCEPT !.healthData = requests[i].data, !.loading = FALSE])
              ELSE Render([app EXCEPT !.serverStatus = "offline"])
    /\ requests' = RemoveAt(requests, i)
    /\ UNCHANGED <<serverVars, chatBot, metricsForm>>

\* initializeApp after await healthAPI.getHealthData(userId): setHealthData,
\* or the catch, and the finally
initializeAppDone(i) ==
    /\ requests[i].origin = "initializeApp"
    /\ requests[i].api = "getHealthData"
    /\ requests[i].stage = "answered"
    /\ app' = IF requests[i].ok
              THEN Render([app EXCEPT !.healthData = requests[i].data, !.loading = FALSE])
              ELSE Render([app EXCEPT !.serverStatus = "offline", !.loading = FALSE])
    /\ requests' = RemoveAt(requests, i)
    /\ UNCHANGED <<serverVars, chatBot, metricsForm>>

\* handleMetricAdded after its await: setHealthData, or the catch that only
\* logs
handleMetricAddedDone(i) ==
    /\ requests[i].origin = "handleMetricAdded"
    /\ requests[i].stage = "answered"
    /\ app' = IF requests[i].ok
              THEN Render([app EXCEPT !.healthData = requests[i].data])
              ELSE app
    /\ requests' = RemoveAt(requests, i)
    /\ UNCHANGED <<serverVars, chatBot, metricsForm>>

\* a visit of another page: the page of the route is rendered with new
\* components, and the HealthMetricsForm that was shown is unmounted, so the
\* state updates of a submission it still awaits have no effect
Navigate(route) ==
    /\ PagesRendered(app)
    /\ route # app.route
    /\ app' = Render([app EXCEPT !.route = route])
    /\ metricsForm' = formInitial
    /\ requests' = [i \in DOMAIN requests |->
            IF requests[i].origin = "handleSubmit"
            THEN [requests[i] EXCEPT !.local = [mounted |-> FALSE]]
            ELSE requests[i]]
    /\ UNCHANGED <<serverVars, chatBot>>

\* the unit of each entry of METRIC_TYPES, the degree sign left out
METRIC_TYPES ==
    [weight |-> "kg", height |-> "cm", blood_pressure |-> "mmHg",
     heart_rate |-> "bpm", blood_sugar |-> "mg/dL", temperature |-> "C",
     sleep_hours |-> "hours", steps |-> "steps", water_intake |-> "L",
     exercise_minutes |-> "minutes"]

\* is a HealthMetricsForm on the page shown
FormRendered == PagesRendered(app) /\ app.route \in {"/", "/add-metric"}

\* the button that opens the form, and its Cancel and close buttons
setIsOpen(open) ==
    /\ FormRendered
    /\ metricsForm.isOpen # open
    /\ metricsForm' = [metricsForm EXCEPT !.isOpen = open]
    /\ UNCHANGED <<serverVars, chatBot, requests, app>>

\* a click on a metric type of the open form
handleTypeChange(type) ==
    /\ FormRendered
    /\ metricsForm.isOpen
    /\ metricsForm' = [metricsForm EXCEPT
            !.formData = [type |-> type, value |-> "", unit |-> METRIC_TYPES[type],
                          notes |-> ""]]
    /\ UNCHANGED <<serverVars, chatBot, requests, app>>

\* onChange of the value input, which is shown once a type is chosen
setFormDataValue(text) ==
    /\ FormRendered
    /\ metricsForm.isOpen
    /\ metricsForm.formData.type # ""
    /\ metricsForm' = [metricsForm EXCEPT !.formData.value = text]
    /\ UNCHANGED <<serverVars, chatBot, requests, app>>

\* Number(text) of a text of digits, spaces and other characters
NumberOfString(text) ==
    LET t == trim(text)
    IN  IF \A i \in 1..Len(t) : IsDigit(CharAt(t, i))
        THEN Number(DigitsPrefix(t, 0))
        ELSE NaN

\* processedValue of handleSubmit
processedValue(formData) ==
    IF formData.type = "blood_pressure" THEN Str(formData.value)
    ELSE IF ~NumberOfString(formData.value).nan
         THEN Num(NumberOfString(formData.value).n)
    ELSE Str(formData.value)

\* handleSubmit that sends whenever a type is chosen
handleSubmitWithoutValue(maxSubmits) ==
    /\ FormRendered
    /\ metricsForm.isOpen
    /\ ~metricsForm.isSubmitting
    /\ Cardinality({i \in DOMAIN requests : requests[i].origin = "handleSubmit"})
            < maxSubmits
    /\ IF metricsForm.formData.type = ""
       THEN UNCHANGED vars
       ELSE /\ metricsForm' = [metricsForm EXCEPT !.isSubmitting = TRUE]
            /\ requests' = Append(requests,
                    addHealthMetric("handleSubmit",
                        [type |-> metricsForm.formData.type,
                         value |-> processedValue(metricsForm.formData),
                         unit |-> metricsForm.formData.unit],
                        [mounted |-> TRUE]))
            /\ UNCHANGED <<serverVars, chatBot, app>>

\* the submit of the open form, up to the await of handleSubmit; the submit
\* button is disabled while isSubmitting, and notes is left empty, so the
\* metric has no notes; maxSubmits bounds the submissions under way, those
\* of unmounted forms included
handleSubmit(maxSubmits) ==
    /\ FormRendered
    /\ metricsForm.isOpen
    /\ ~metricsForm.isSubmitting
    /\ Cardinality({i \in DOMAIN requests : requests[i].origin = "handleSubmit"})
            < maxSubmits
    /\ IF metricsForm.formData.type = "" \/ metricsForm.formData.value = ""
       THEN UNCHANGED vars
       ELSE /\ metricsForm' = [metricsForm EXCEPT !.isSubmitting = TRUE]
            /\ requests' = Append(requests,
                    addHealthMetric("handleSubmit",
                        [type |-> metricsForm.formData.type,
                         value |-> processedValue(metricsForm.formData),
                         unit |-> metricsForm.formData.unit],
                        [mounted |-> TRUE]))
            /\ UNCHANGED <<serverVars, chatBot, app>>

\* handleSubmit after its await: the form is reset and closed and
\* onMetricAdded(), which is handleMetricAdded of App, is called up to its
\* await; or the catch; and the finally
handleSubmitDone(i) ==
    /\ requests[i].origin = "handleSubmit"
    /\ requests[i].stage = "answered"
    /\ metricsForm' =
            IF ~requests[i].local.mounted THEN metricsForm
            ELSE IF requests[i].ok
            THEN [isOpen |-> FALSE, isSubmitting |-> FALSE,
                  formData |-> [type |-> "", value |-> "", unit |-> "", notes |-> ""]]
            ELSE [metricsForm EXCEPT !.isSubmitting = FALSE]
    /\ requests' = IF requests[i].ok
                   THEN Append(RemoveAt(requests, i), getHealthData("handleMetricAdded"))
                   ELSE RemoveAt(requests, i)
    /\ UNCHANGED <<serverVars, chatBot, app>>

(***************************************************************************)
(* Requests of the runs.                                                   *)
(***************************************************************************)
Weight(n) == [type |-> "weight", value |-> Num(n), unit |-> "kg"]

BloodPressure(v) == [type |-> "blood_pressure", value |-> v, unit |-> "mmHg"]

HeartRate(v) == [type |-> "heart_rate", value |-> v, unit |-> "bpm"]

Steps(n) == [type |-> "steps", value |-> Num(n), unit |-> "steps"]

\* a time before every value of the clock
BackDated == 0

ApiParams == {"", "u2"}

ApiSessions == {"default", "s2"}

ApiBodies ==
    { Weight(70),
      Spread(Weight(68), [userId |-> "u2", timestamp |-> BackDated]),
      [type |-> "mood", value |-> Num(5), unit |-> "pts"],
      [type |-> "weight", value |-> Num(70)],
      [value |-> Num(70), unit |-> "kg"],
      [type |-> "weight", unit |-> "kg"] }

ApiChats ==
    { [message |-> "help"],
      [message |-> "my weight", sessionId |-> "s2", userId |-> "u2"],
      [sessionId |-> "s2"] }

RandomDraws == 0..2

Next ==
    \/ \E param \in ApiParams : GetHealthData(param) /\ UNCHANGED clientVars
    \/ \E body \in ApiBodies : PostHealthData(body, MaxRecords) /\ UNCHANGED clientVars
    \/ \E body \in ApiChats : \E r \in RandomDraws : Chat(body, r, MaxExchanges) /\ UNCHANGED clientVars
    \/ \E sessionId \in ApiSessions : GetChatHistory(sessionId) /\ UNCHANGED clientVars
    \/ \E param \in ApiParams : GetHealthInsights(param) /\ UNCHANGED clientVars

Spec == Init /\ [][Next]_vars

(***************************************************************************)
(* Long conversations in one session.                                      *)
(***************************************************************************)
HistChats == { [message |-> "help"], [message |-> "my weight"], [sessionId |-> "default"] }

NextHist ==
    \/ \E body \in HistChats : \E r \in RandomDraws : Chat(body, r, MaxHistExchanges) /\ UNCHANGED clientVars
    \/ GetChatHistory("default") /\ UNCHANGED clientVars

SpecHist == Init /\ [][NextHist]_vars

(***************************************************************************)
(* Classification of messages by generateResponse.                         *)
(***************************************************************************)
IntentMessages ==
    { "Hello", "hello, what's my blood pressure", "hey there", "this is my weight",
      "What's my latest blood pressure?", "Show me my weight trends",
      "weight", "blood pressure", "Heart Rate",
      "weight summary", "heart rate help", "weight and heart rate",
      "Give me a health overview", "help with summary", "summary",
      "what can you do", "HELP", "How can I improve my heart health?",
      "height", "blood sugar", "temperature", "sleep hours", "steps",
      "water intake", "exercise minutes" }

IntentBodies == { Weight(70), BloodPressure(Str("120/80")), HeartRate(Num(72)) }

NextIntent ==
    \/ \E body \in IntentBodies : PostHealthData(body, MaxIntentRecords) /\ UNCHANGED clientVars
    \/ \E message \in IntentMessages : \E r \in RandomDraws : GenerateResponse(message, r) /\ UNCHANGED clientVars

SpecIntent == Init /\ [][NextIntent]_vars

(***************************************************************************)
(* Replies and insights composed from the stored records.                  *)
(***************************************************************************)
ReplyMessages ==
    { "my weight", "blood pressure", "heart rate", "weight and heart rate", "summary" }

ReplyBodies ==
    { Weight(70), Weight(68), BloodPressure(Str("120/80")), HeartRate(Obj) }

NextReply ==
    \/ \E body \in ReplyBodies : PostHealthData(body, MaxReplyRecords) /\ UNCHANGED clientVars
    \/ \E message \in ReplyMessages : \E r \in RandomDraws : GenerateResponse(message, r) /\ UNCHANGED clientVars
    \/ GetHealthInsights("") /\ UNCHANGED clientVars

SpecReply == Init /\ [][NextReply]_vars

(***************************************************************************)
(* The specification of the recommendations: a user who logs three         *)
(* readings of any of three types and from then on the weight only, so     *)
(* that lists of 1 to 3 types and of up to MaxRecsRecords records are      *)
(* stored before insights are asked for.                                   *)
(***************************************************************************)
RecsBodies(stored) ==
    IF stored < 3
    THEN { Weight(70), BloodPressure(Str("120/80")), HeartRate(Num(72)) }
    ELSE { Weight(70) }

NextRecs ==
    \/ \E body \in RecsBodies(TotalLen(healthData)) : PostHealthData(body, MaxRecsRecords) /\ UNCHANGED clientVars
    \/ GetHealthInsights("") /\ UNCHANGED clientVars

SpecRecs == Init /\ [][NextRecs]_vars

(***************************************************************************)
(* The specification of the values: valid writes of a number 0, of a      *)
(* string, of a plain object and of an object without toString, followed  *)
(* by chat and insights requests.                                          *)
(***************************************************************************)
TotalBodies ==
    { Weight(0), Weight(70), BloodPressure(Str("120/80")), HeartRate(Obj),
      [type |-> "weight", value |-> ObjNoToString, unit |-> "kg"] }

TotalChats == { [message |-> "my weight"], [message |-> "summary"] }

NextTotal ==
    \/ \E body \in TotalBodies : PostHealthData(body, MaxRecords) /\ UNCHANGED clientVars
    \/ \E body \in TotalChats : Chat(body, 0, MaxExchanges) /\ UNCHANGED clientVars
    \/ GetHealthInsights("") /\ UNCHANGED clientVars

SpecTotal == Init /\ [][NextTotal]_vars

(***************************************************************************)
(* The specification of the ChatBot component: one component over the      *)
(* server, the user typing and submitting, requests answered by the        *)
(* server or failing.                                                      *)
(***************************************************************************)
TypedInputs == { "", "  ", " hi ", "my weight" }

\* a message of an earlier visit of the page in the session of the component
EarlierChat == [message |-> "my weight", sessionId |-> "default", userId |-> "default"]

NextChatBot ==
    \/ ~chatBot.mounted /\ Chat(EarlierChat, 0, MaxExchanges) /\ UNCHANGED clientVars
    \/ Mount /\ UNCHANGED appVars
    \/ \E text \in TypedInputs : setInputMessage(text) /\ UNCHANGED appVars
    \/ handleSendMessage(2 * MaxChatBotSends) /\ UNCHANGED appVars
    \/ \E i \in DOMAIN requests : ServeSendMessage(i, 0, MaxChatBotSends + MaxExchanges + 1) /\ UNCHANGED appVars
    \/ \E i \in DOMAIN requests : ServeGetConversationHistory(i) /\ UNCHANGED appVars
    \/ \E i \in DOMAIN requests : NetworkError(i) /\ UNCHANGED appVars
    \/ \E i \in DOMAIN requests : loadHistoryDone(i) /\ UNCHANGED appVars
    \/ \E i \in DOMAIN requests : sendInitialGreetingSent(i) /\ UNCHANGED appVars
    \/ \E i \in DOMAIN requests : sendInitialGreetingDone(i) /\ UNCHANGED appVars
    \/ \E i \in DOMAIN requests : handleSendMessageDone(i) /\ UNCHANGED appVars

SpecChatBot == Init /\ [][NextChatBot]_vars

\* the start of App while other clients write measurements of its user
AppInitBodies == {Weight(70), Weight(72), Spread(Weight(68), [userId |-> "u2"])}

\* what a step of the start of App changes: the state of App, and which
\* requests are under way and how far they are
initializeAppVars ==
    <<app, [i \in DOMAIN requests |-> <<requests[i].api, requests[i].stage>>]>>

\* a step of the start of App: a step a request of initializeApp takes
initializeAppStep ==
    \/ AppMount
    \/ \E i \in DOMAIN requests : ServeCheckServerHealth(i)
    \/ \E i \in DOMAIN requests : ServeGetHealthData(i)
    \/ \E i \in DOMAIN requests : NetworkError(i) /\ UNCHANGED appVars
    \/ \E i \in DOMAIN requests : checkServerHealthDone(i)
    \/ \E i \in DOMAIN requests : initializeAppDone(i)

NextAppInit ==
    \/ \E body \in AppInitBodies :
            PostHealthData(body, MaxRecords) /\ UNCHANGED clientVars
    \/ AppMount
    \/ \E i \in DOMAIN requests : ServeCheckServerHealth(i)
    \/ \E i \in DOMAIN requests : ServeGetHealthData(i)
    \/ \E i \in DOMAIN requests : NetworkError(i) /\ UNCHANGED appVars
    \/ \E i \in DOMAIN requests : checkServerHealthDone(i)
    \/ \E i \in DOMAIN requests : initializeAppDone(i)

\* the App in use: the user visits the pages and adds measurements with the
\* form
AppRoutes == {"/", "/dashboard", "/add-metric"}

FormTypes == {"weight"}

FormValues == {"", "72"}

NextApp ==
    \/ AppMount
    \/ \E i \in DOMAIN requests : ServeCheckServerHealth(i)
    \/ \E i \in DOMAIN requests : ServeGetHealthData(i)
    \/ \E i \in DOMAIN requests : ServeAddHealthMetric(i, MaxAppRecords)
    \/ \E i \in DOMAIN requests : NetworkError(i) /\ UNCHANGED appVars
    \/ \E i \in DOMAIN requests : checkServerHealthDone(i)
    \/ \E i \in DOMAIN requests : initializeAppDone(i)
    \/ \E i \in DOMAIN requests : handleMetricAddedDone(i)
    \/ \E route \in AppRoutes : Navigate(route)
    \/ \E open \in BOOLEAN : setIsOpen(open)
    \/ \E type \in FormTypes : handleTypeChange(type)
    \/ \E text \in FormValues : setFormDataValue(text)
    \/ handleSubmit(MaxAppSubmits)
    \/ \E i \in DOMAIN requests : handleSubmitDone(i)

SpecApp == Init /\ [][NextApp]_vars

\* the functions of the bot applied to lists of records in any order of
\* their timestamps: every list of at most MaxSortRecords records
SortRecords ==
    {Spread(m, [id |-> i, timestamp |-> t]) :
        m \in {Weight(70), Weight(72), HeartRate(Num(60))},
        i \in {1}, t \in 1..MaxSortRecords}

RECURSIVE ListsUpTo(_, _)
ListsUpTo(set, n) ==
    IF n = 0 THEN {<<>>}
    ELSE LET shorter == ListsUpTo(set, n - 1)
         IN  shorter \cup {Append(list, x) : list \in shorter, x \in set}

\* the ids of a list are the places of its records
SortLists ==
    {[i \in DOMAIN list |-> [list[i] EXCEPT !.id = i]] :
        list \in ListsUpTo(SortRecords, MaxSortRecords)}

InitSort ==
    /\ healthData = EmptyMap
    /\ conversations = EmptyMap
    /\ now = 1
    /\ nextId = 1
    /\ chatBot = useStateInitial
    /\ requests = <<>>
    /\ app = appInitial
    /\ metricsForm = formInitial
    /\ \E data \in SortLists : res = [op |-> "data", req |-> data]

\* generateHealthInsights(data) of a list
ApplyGenerateHealthInsights ==
    /\ res.op = "data"
    /\ res' = [op |-> "generateHealthInsights", req |-> res.req, status |-> 200,
               body |-> generateHealthInsights(res.req)]
    /\ UNCHANGED <<healthData, conversations, now, nextId, clientVars>>

\* chatbot.generateResponse(message, data) of a list
ApplyGenerateResponse(message, r) ==
    /\ res.op = "data"
    /\ res' = [op |-> "generateResponse", req |-> res.req, status |-> 200,
               message |-> message, body |-> generateResponse(message, res.req, r)]
    /\ UNCHANGED <<healthData, conversations, now, nextId, clientVars>>

NextSort ==
    \/ ApplyGenerateHealthInsights
    \/ \E message \in {"my weight", "heart rate"} : ApplyGenerateResponse(message, 0)

SpecSort == InitSort /\ [][NextSort]_vars

\* the effect runs after the first render, every request is answered or
\* fails, and every settled promise runs its continuation
SpecAppInit == Init /\ [][NextAppInit]_vars /\ WF_initializeAppVars(initializeAppStep)

(***************************************************************************)
(* Properties of the measurement store.                                    *)
(***************************************************************************)
\* C1: a successful POST /api/health/data leaves the user's earlier records
\* as they were, in their order, and adds the new record at the end: the
\* list after the write is the list before it with the new record appended.
C1_PostAppendsAtEnd ==
    [][ (res'.op = "postHealthData" /\ res'.status = 201 /\ nextId' # nextId) =>
            LET userId == IF "userId" \in DOMAIN res'.req THEN res'.req.userId
                          ELSE "default"
                before == IF userId \in DOMAIN healthData THEN healthData[userId]
                          ELSE <<>>
            IN  /\ userId \in DOMAIN healthData'
                /\ healthData'[userId] = Append(before, res'.body.data) ]_vars

\* a write has just been answered for a user who had records before it
C1_Witness ==
    /\ res.op = "postHealthData"
    /\ res.status = 201
    /\ \E userId \in DOMAIN healthData :
            /\ Len(healthData[userId]) >= 2
            /\ healthData[userId][Len(healthData[userId])] = res.body.data

\* C9: a record written with a caller-supplied timestamp is stored and
\* returned with exactly that timestamp; the write time is stamped only when
\* the request carries none.
C9_SuppliedTimestampKept ==
    (res.op = "postHealthData" /\ res.status = 201 /\ "timestamp" \in DOMAIN res.req) =>
        /\ res.body.data.timestamp = res.req.timestamp
        /\ \E userId \in DOMAIN healthData :
                \E i \in DOMAIN healthData[userId] :
                    /\ healthData[userId][i].id = res.body.data.id
                    /\ healthData[userId][i].timestamp = res.req.timestamp

(***************************************************************************)
(* Properties of the conversation store.                                   *)
(***************************************************************************)
\* C2: every stored history, and every history a read returns, has even
\* length and is a sequence of (user turn, bot turn) pairs, the bot turn
\* holding the reply generated for the user text before it; no read shows a
\* user turn without its bot turn.
C2_PairsIntact ==
    LET Replies(message) ==
            UNION { { generateResponse(message, SubSeq(GetOrEmpty(healthData, userId), 1, n), r) :
                        <<n, r>> \in (0..Len(GetOrEmpty(healthData, userId))) \X RandomDraws } :
                    userId \in (DOMAIN healthData) \cup {"default"} }
        Paired(history) ==
            /\ Len(history) % 2 = 0
            /\ \A i \in 1..(Len(history) \div 2) :
                    /\ history[2 * i - 1].type = "user"
                    /\ history[2 * i].type = "bot"
                    /\ history[2 * i].message \in Replies(history[2 * i - 1].message)
    IN  /\ \A sessionId \in DOMAIN conversations : Paired(conversations[sessionId])
        /\ res.op = "getChatHistory" => Paired(res.body)

\* a read returns a history of two exchanges with different user texts
C2_Witness ==
    /\ res.op = "getChatHistory"
    /\ Len(res.body) >= 4
    /\ res.body[1].message # res.body[3].message
    /\ res.body = conversations[res.req]

\* C3: the conversation a chat returns is the last min(10, n) turns of the
\* session's history, oldest first, n the length of the history with this
\* exchange in it; it has at most 10 turns and an even number of them.
C3_RecentTen ==
    (res.op = "chat" /\ res.status = 200) =>
        LET history == conversations[res.body.sessionId]
            recent == res.body.conversation
            n == Len(history)
            k == IF n < 10 THEN n ELSE 10
        IN  /\ Len(recent) = k
            /\ \A i \in 1..k : recent[i] = history[n - k + i]
            /\ Len(recent) <= 10
            /\ Len(recent) % 2 = 0

\* a chat is answered in a session whose history is longer than 10 turns
C3_Witness ==
    /\ res.op = "chat"
    /\ res.status = 200
    /\ Len(conversations[res.body.sessionId]) > 10
    /\ Len(res.body.conversation) = 10

(***************************************************************************)
(* Properties of the replies.                                              *)
(***************************************************************************)
StartsWith(s, prefix) == Len(prefix) <= Len(s) /\ SubSeq(s, 1, Len(prefix)) = prefix

\* the intent a reply text belongs to
IntentOfReply(reply) ==
    IF \E i \in DOMAIN greeting : reply = greeting[i] THEN "greeting"
    ELSE IF StartsWith(reply, "Your latest ")
            \/ reply \in {weightNoData, bloodPressureNoData, heartRateNoData}
        THEN "metric"
    ELSE IF reply = summaryNoData \/ StartsWith(reply, summaryHeader) THEN "summary"
    ELSE IF reply = helpText THEN "help"
    ELSE IF StartsWith(reply, "I understand you're asking about \"") THEN "fallback"
    ELSE "other"

\* the records the reply was composed from
DefaultData == IF "default" \in DOMAIN healthData THEN healthData["default"] ELSE <<>>

\* C4: the reply has the intent of the first predicate, in the order
\* greeting, metric query, summary/overview, help, fallback, that the
\* lower-cased message matches, whatever records are stored.
C4_FirstMatchWins ==
    res.op = "generateResponse" =>
        LET msg == toLowerCase(res.req)
            expected ==
                IF Includes(msg, "hello") \/ Includes(msg, "hi") \/ Includes(msg, "hey")
                    THEN "greeting"
                ELSE IF Includes(msg, "weight") \/ Includes(msg, "blood pressure")
                        \/ Includes(msg, "heart rate")
                    THEN "metric"
                ELSE IF Includes(msg, "summary") \/ Includes(msg, "overview") THEN "summary"
                ELSE IF Includes(msg, "help") \/ Includes(msg, "what can you do") THEN "help"
                ELSE "fallback"
        IN  IntentOfReply(res.body) = expected

\* a text with 'hello' and 'blood pressure' is answered with a greeting while
\* a blood pressure record is stored
C4_Witness ==
    /\ res.op = "generateResponse"
    /\ res.req = "hello, what's my blood pressure"
    /\ IntentOfReply(res.body) = "greeting"
    /\ \E i \in DOMAIN DefaultData : DefaultData[i].type = "blood_pressure"

\* C5: for each of the ten metric types t, a message that names t (and no
\* other type) and has no greeting keyword, sent while no record of type t is
\* stored, is answered with the no-data prompt of t: a metric reply that
\* names t, not the reply of another intent.
C5_NoDataPromptEveryType ==
    res.op = "generateResponse" =>
        LET msg == toLowerCase(res.req)
            Names(t) == Includes(msg, replace(t, "_", " "))
        IN  \A t \in MetricTypeSet :
                ( /\ Names(t)
                  /\ \A other \in MetricTypeSet \ {t} : ~Names(other)
                  /\ ~(Includes(msg, "hello") \/ Includes(msg, "hi") \/ Includes(msg, "hey"))
                  /\ \A i \in DOMAIN DefaultData : DefaultData[i].type # t )
                => ( /\ IntentOfReply(res.body) = "metric"
                     /\ ~StartsWith(res.body, "Your latest ")
                     /\ Includes(res.body, replace(t, "_", " ")) )

\* the metric type a message queries: the first of the matcher's metric
\* keywords it contains, "none" for a greeting or a text without any
QueriedType(message) ==
    LET msg == toLowerCase(message)
    IN  IF Includes(msg, "hello") \/ Includes(msg, "hi") \/ Includes(msg, "hey") THEN "none"
        ELSE IF Includes(msg, "weight") THEN "weight"
        ELSE IF Includes(msg, "blood pressure") THEN "blood_pressure"
        ELSE IF Includes(msg, "heart rate") THEN "heart_rate"
        ELSE "none"

\* the index in data of the record of this type inserted last
LastIndexOfType(data, type) ==
    CHOOSE i \in DOMAIN data :
        /\ data[i].type = type
        /\ \A j \in DOMAIN data : j > i => data[j].type # type

HasType(data, type) == \E i \in DOMAIN data : data[i].type = type

\* C5 (amended): for each of the three metric types the matcher tests, a
\* message whose queried type is t, sent while no record of type t is stored,
\* is answered with the no-data prompt of t; a message without greeting
\* keyword that names one of the other seven types and none of the three is
\* answered by a later rule: summary, help or fallback.
C5_NoDataPromptQueriedTypes ==
    res.op = "generateResponse" =>
        LET msg == toLowerCase(res.req)
            queried == QueriedType(res.req)
            prompt == CASE queried = "weight" -> weightNoData
                        [] queried = "blood_pressure" -> bloodPressureNoData
                        [] queried = "heart_rate" -> heartRateNoData
                        [] OTHER -> ""
        IN  /\ (queried # "none" /\ ~HasType(DefaultData, queried)) => res.body = prompt
            /\ \A t \in MetricTypeSet \ {"weight", "blood_pressure", "heart_rate"} :
                    ( /\ Includes(msg, replace(t, "_", " "))
                      /\ queried = "none"
                      /\ ~(Includes(msg, "hello") \/ Includes(msg, "hi") \/ Includes(msg, "hey")) )
                    => IntentOfReply(res.body) \in {"summary", "help", "fallback"}

\* a heart rate query is answered with the heart rate prompt while a record
\* of another type is stored
C5_Witness ==
    /\ res.op = "generateResponse"
    /\ QueriedType(res.req) = "heart_rate"
    /\ DefaultData # <<>>
    /\ ~HasType(DefaultData, "heart_rate")
    /\ res.body = heartRateNoData

C7_ReplyHasValueAndUnit ==
    (res.op = "generateResponse" /\ QueriedType(res.req) # "none"
        /\ HasType(DefaultData, QueriedType(res.req))) =>
        LET type == QueriedType(res.req)
            latest == DefaultData[LastIndexOfType(DefaultData, type)]
            advice == CASE type = "weight" -> weightAdvice
                        [] type = "blood_pressure" -> bloodPressureAdvice
                        [] type = "heart_rate" -> heartRateAdvice
        IN  res.body = "Your latest " \o replace(type, "_", " ") \o " is "
                            \o ToStr(latest.value) \o " " \o latest.unit \o ". " \o advice

\* the set of positions at which sub occurs in s
Occurrences(s, sub) ==
    { i \in 1..(Len(s) - Len(sub) + 1) : SubSeq(s, i, i + Len(sub) - 1) = sub }

\* C8: for a non-empty record list the summary has one line per distinct
\* type of the list, and no other line; the line of a type shows the value and
\* the unit of the record of that type inserted last and the number of records
\* of that type.
C8_SummaryLines ==
    (res.op = "generateResponse" /\ IntentOfReply(res.body) = "summary"
        /\ DefaultData # <<>>) =>
        LET types == { DefaultData[i].type : i \in DOMAIN DefaultData }
            LineOf(type) ==
                LET latest == DefaultData[LastIndexOfType(DefaultData, type)]
                    count == Cardinality({ i \in DOMAIN DefaultData : DefaultData[i].type = type })
                IN  "* **" \o toUpperCase(replace(type, "_", " ")) \o "**: "
                        \o ToStr(latest.value) \o " " \o latest.unit
                        \o " (" \o IntToString(count) \o " recordings)\n"
        IN  /\ \A type \in types : Cardinality(Occurrences(res.body, LineOf(type))) = 1
            /\ Cardinality(Occurrences(res.body, " recordings)\n")) = Cardinality(types)
            /\ Cardinality(Occurrences(res.body, "* **")) = Cardinality(types)

\* a summary is composed from three records of two types
C8_Witness ==
    /\ res.op = "generateResponse"
    /\ StartsWith(res.body, summaryHeader)
    /\ Len(DefaultData) = 3
    /\ Cardinality({ DefaultData[i].type : i \in DOMAIN DefaultData }) = 2
    /\ DefaultData[1].type = DefaultData[3].type
    /\ DefaultData[1].value # DefaultData[3].value

(***************************************************************************)
(* Properties of the insights.                                             *)
(***************************************************************************)
\* the records of one type, in the order of data
GroupOf(data, type) == SelectSeq(data, LAMBDA record : record.type = type)

\* the record of a group that is first in timestamp order
EarliestOf(group) ==
    group[CHOOSE i \in DOMAIN group :
            \A j \in DOMAIN group :
                \/ group[i].timestamp < group[j].timestamp
                \/ (group[i].timestamp = group[j].timestamp /\ i <= j)]

\* the record of a group that is last in timestamp order
LatestOf(group) ==
    group[CHOOSE i \in DOMAIN group :
            \A j \in DOMAIN group :
                \/ group[i].timestamp > group[j].timestamp
                \/ (group[i].timestamp = group[j].timestamp /\ i >= j)]

\* C10: for every type with at least 2 records whose first and last values in
\* timestamp order are numbers, insights has a trend whose direction is
\* 'increase' iff last > first, 'decrease' iff last < first and 'stable' iff
\* last = first and whose record count is the size of the group; the trend is
\* the one computed from the records of that type alone.
C10_TrendDirection ==
    (res.op = "getHealthInsights" /\ DefaultData # <<>>) =>
        \A type \in { DefaultData[i].type : i \in DOMAIN DefaultData } :
            LET group == GroupOf(DefaultData, type)
                first == EarliestOf(group).value
                last == LatestOf(group).value
            IN  (Len(group) >= 2 /\ first.k = "num" /\ last.k = "num") =>
                    /\ type \in DOMAIN res.body.trends
                    /\ res.body.trends[type].direction = "increase" <=> last.n > first.n
                    /\ res.body.trends[type].direction = "decrease" <=> last.n < first.n
                    /\ res.body.trends[type].direction = "stable" <=> last.n = first.n
                    /\ res.body.trends[type].recordCount = Len(group)
                    /\ res.body.trends[type] = generateHealthInsights(group).trends[type]

\* insights are computed from weight 70, a record of another type and weight
\* 68: the weight trend is a decrease over 2 records
C10_Witness ==
    /\ res.op = "getHealthInsights"
    /\ Len(DefaultData) = 3
    /\ DefaultData[1].type = "weight" /\ DefaultData[1].value.n = 70
    /\ DefaultData[2].type # "weight"
    /\ DefaultData[3].type = "weight" /\ DefaultData[3].value.n = 68
    /\ res.body.trends["weight"].direction = "decrease"
    /\ res.body.trends["weight"].recordCount = 2

\* C11: a type group whose first or last value in timestamp order is not a
\* number (a composite string such as "120/80", or an object) has no entry in
\* the trends of insights.
C11_CompositeHasNoTrend ==
    (res.op = "getHealthInsights" /\ DefaultData # <<>>) =>
        \A type \in { DefaultData[i].type : i \in DOMAIN DefaultData } :
            LET group == GroupOf(DefaultData, type)
            IN  (EarliestOf(group).value.k # "num" \/ LatestOf(group).value.k # "num")
                    => type \notin DOMAIN res.body.trends

\* is text a decimal numeral with an optional sign and exactly one digit after
\* the point
IsOneDecimal(text) ==
    LET body == IF text # "" /\ CharAt(text, 1) = "-" THEN SubSeq(text, 2, Len(text)) ELSE text
        dot == IndexOf(body, ".")
    IN  /\ dot >= 2
        /\ Len(body) = dot + 1
        /\ \A i \in (1..Len(body)) \ {dot} : IsDigit(CharAt(body, i))

\* the number of tenths a one-decimal numeral denotes
TenthsOf(text) ==
    LET negative == CharAt(text, 1) = "-"
        body == IF negative THEN SubSeq(text, 2, Len(text)) ELSE text
        dot == IndexOf(body, ".")
        tenths == 10 * DigitsPrefix(SubSeq(body, 1, dot - 1), 0) + DigitVal(CharAt(body, dot + 1))
    IN  IF negative THEN 0 - tenths ELSE tenths

\* C12: for every type group of at least 2 records whose first and last values
\* in timestamp order are numbers, the first one not 0, the trend's change is
\* last - first and its percentChange is the one-decimal numeral nearest to
\* (change / first) * 100 (at most half a tenth away); weight 70 then 68 gives
\* change -2, percentChange -2.9, direction decrease and record count 2.
C12_DeltaAndPercent ==
    (res.op = "getHealthInsights" /\ DefaultData # <<>>) =>
        \A type \in { DefaultData[i].type : i \in DOMAIN DefaultData } :
            LET group == GroupOf(DefaultData, type)
                first == EarliestOf(group).value
                last == LatestOf(group).value
                trend == res.body.trends[type]
            IN  (Len(group) >= 2 /\ first.k = "num" /\ last.k = "num" /\ first.n # 0) =>
                    /\ type \in DOMAIN res.body.trends
                    /\ trend.change = last.n - first.n
                    /\ IsOneDecimal(trend.percentChange)
                    /\ 2 * Abs(TenthsOf(trend.percentChange) * first.n - 1000 * trend.change)
                            <= Abs(first.n)
                    /\ (first.n = 70 /\ last.n = 68) =>
                            trend = [change |-> 0 - 2, percentChange |-> "-2.9",
                                     direction |-> "decrease", recordCount |-> Len(group)]

\* insights over the two records weight 70 and then weight 68: change -2,
\* percentChange -2.9, a decrease over 2 records
C12_Witness ==
    /\ res.op = "getHealthInsights"
    /\ Len(DefaultData) = 2
    /\ DefaultData[1].type = "weight" /\ DefaultData[1].value = Num(70)
    /\ DefaultData[2].type = "weight" /\ DefaultData[2].value = Num(68)
    /\ res.body.trends["weight"].change = 0 - 2
    /\ res.body.trends["weight"].percentChange = "-2.9"
    /\ res.body.trends["weight"].recordCount = 2

\* C13: for every non-empty list the recommendations of insights are, in this
\* order, 'track more metrics' iff the list has fewer than 3 distinct types,
\* 'log more frequently' iff it has fewer than 7 records, and the closing
\* encouragement: never empty, without duplicates, the closing line last.
C13_Recommendations ==
    (res.op = "getHealthInsights" /\ DefaultData # <<>>) =>
        LET recs == res.body.recommendations
            types == { DefaultData[i].type : i \in DOMAIN DefaultData }
        IN  /\ recs # <<>>
            /\ recs[Len(recs)] = greatJob
            /\ \A i \in DOMAIN recs : recs[i] \in {trackMoreMetrics, logMoreFrequently, greatJob}
            /\ \A i, j \in DOMAIN recs : i < j => recs[i] # recs[j]
            /\ (\E i \in DOMAIN recs : recs[i] = trackMoreMetrics) <=> Cardinality(types) < 3
            /\ (\E i \in DOMAIN recs : recs[i] = logMoreFrequently) <=> Len(DefaultData) < 7
            /\ \A i, j \in DOMAIN recs :
                    (recs[i] = trackMoreMetrics /\ recs[j] = logMoreFrequently) => i < j

\* insights over 7 records of 3 types: the closing line is the only
\* recommendation
C13_Witness ==
    /\ res.op = "getHealthInsights"
    /\ Len(DefaultData) = 7
    /\ Cardinality({ DefaultData[i].type : i \in DOMAIN DefaultData }) = 3
    /\ res.body.recommendations = <<greatJob>>

\* C14: insights for a user with no records answers the fixed no-data message
\* and nothing else (no totalRecords, trends or recommendations); for a user
\* with at least one record it answers a full report whose totalRecords is the
\* number of stored records and whose metricsTracked lists each distinct type
\* of the records once.
C14_NoDataOrFullReport ==
    res.op = "getHealthInsights" =>
        IF DefaultData = <<>>
        THEN res.body = [message |-> noDataMessage]
        ELSE /\ DOMAIN res.body = {"totalRecords", "metricsTracked", "trends", "recommendations"}
             /\ res.body.totalRecords = Len(DefaultData)
             /\ { res.body.metricsTracked[i] : i \in DOMAIN res.body.metricsTracked }
                    = { DefaultData[i].type : i \in DOMAIN DefaultData }
             /\ \A i, j \in DOMAIN res.body.metricsTracked :
                    i < j => res.body.metricsTracked[i] # res.body.metricsTracked[j]

\* insights asked for with nothing stored: the no-data message
C14_Witness ==
    /\ res.op = "getHealthInsights"
    /\ DefaultData = <<>>
    /\ res.body = [message |-> noDataMessage]

\* the user a request of the measurement API names
UserOfParam(param) == IF param # "" THEN param ELSE "default"

UserOfBody(body) == IF Has(body, "userId") THEN body.userId ELSE "default"

\* a read answers the list stored for the user
C15_ReadAnswersStore ==
    res.op = "getHealthData" => res.body = GetOrEmpty(healthData, UserOfParam(res.req))

\* a chat, chat history, insights or read request leaves every user's list as it
\* is, and a write leaves the list of every other user as it is
C15_ListsKept ==
    \A userId \in {"default", "u2"} :
        \/ res'.op = "postHealthData" /\ UserOfBody(res'.req) = userId
        \/ GetOrEmpty(healthData', userId) = GetOrEmpty(healthData, userId)

\* C15: two reads of a user's measurements with no write for that user in
\* between answer the same sequence, whatever chat, chat history and insights
\* requests run in between: a read answers the stored list, and a chat or
\* insights request (its sort by timestamp included) adds, removes, changes
\* and reorders no stored record.
C15_ReadsRepeatable == [](C15_ReadAnswersStore) /\ [][C15_ListsKept]_vars

\* a read of two records written at different times, answered after a chat
\* exchange was stored
C15_Witness ==
    /\ res.op = "getHealthData"
    /\ Len(res.body) = 2
    /\ res.body[1].timestamp < res.body[2].timestamp
    /\ conversations # EmptyMap

SessionOfBody(body) == IF Has(body, "sessionId") THEN body.sessionId ELSE "default"

\* C16: a request for a key that was never written is no error: a read of the
\* measurements of an unknown user and a read of the history of an unknown
\* session answer 200 with an empty sequence, and a chat of a user with no
\* records is answered 200 with a reply and stores its exchange of two turns
\* at the end of the session's history.
C16_UnknownKeysAreEmpty ==
    /\ (res.op = "getHealthData" /\ UserOfParam(res.req) \notin DOMAIN healthData) =>
            (res.status = 200 /\ res.body = <<>>)
    /\ (res.op = "getChatHistory" /\ res.req \notin DOMAIN conversations) =>
            (res.status = 200 /\ res.body = <<>>)
    /\ (res.op = "chat" /\ Has(res.req, "message")
            /\ GetOrEmpty(healthData, UserOfBody(res.req)) = <<>>) =>
            LET history == GetOrEmpty(conversations, SessionOfBody(res.req))
            IN  /\ res.status = 200
                /\ res.body.response # ""
                /\ Len(history) >= 2
                /\ history[Len(history) - 1].type = "user"
                /\ history[Len(history) - 1].message = res.req.message
                /\ history[Len(history)].type = "bot"
                /\ history[Len(history)].message = res.body.response

\* a read for user u2, who was never written while another user was: empty
C16_Witness ==
    /\ res.op = "getHealthData"
    /\ res.req = "u2"
    /\ "u2" \notin DOMAIN healthData
    /\ "default" \in DOMAIN healthData
    /\ res.status = 200
    /\ res.body = <<>>

\* a write request with no type, a type outside the enumeration, no value or
\* no unit
MalformedMetric(body) ==
    \/ ~Has(body, "type")
    \/ Has(body, "type") /\ \A i \in DOMAIN MetricTypes : MetricTypes[i] # body.type
    \/ ~Has(body, "value")
    \/ ~Has(body, "unit")

C17_Rejected ==
    (\/ res'.op = "postHealthData" /\ MalformedMetric(res'.req)
     \/ res'.op = "chat" /\ ~Has(res'.req, "message")) =>
        /\ res'.status = 400
        /\ res'.body.error # ""
        /\ healthData' = healthData
        /\ conversations' = conversations

\* C17: a malformed request never reaches the stores: a write whose type is
\* outside the enumeration or that lacks type, value or unit, and a chat
\* without a message, is answered with an error (400) and leaves the
\* measurement store and the conversation store exactly as they were.
C17_MalformedLeavesStores == [][C17_Rejected]_vars

\* a write of the unknown type 'mood' was refused while a record and a chat
\* exchange are stored
C17_Witness ==
    /\ res.op = "postHealthData"
    /\ Has(res.req, "type")
    /\ res.req.type = "mood"
    /\ res.status = 400
    /\ healthData # EmptyMap
    /\ conversations # EmptyMap

\* C18: after valid writes only, every chat and every insights request is
\* answered with success (200) and never with an error, also for insights
\* over a group whose earliest number is 0 and for records whose value is a
\* string or an object.
C18_ChatAndInsightsSucceed ==
    res.op \in {"chat", "getHealthInsights"} => res.status = 200

\* every chat and insights request over convertible values is answered with
\* success, a group that starts at 0 included
C18_ConvertibleSucceeds ==
    (/\ res.op \in {"chat", "getHealthInsights"}
     /\ \A i \in DOMAIN DefaultData : ~ToStringThrows(DefaultData[i].value))
        => res.status = 200

\* the string of n spaces
RECURSIVE Spaces(_)
Spaces(n) == IF n = 0 THEN "" ELSE " " \o Spaces(n - 1)

\* is message the text typed without its leading and trailing white space
IsTrimmed(message, typed) ==
    /\ message # ""
    /\ CharAt(message, 1) # " "
    /\ CharAt(message, Len(message)) # " "
    /\ \E a, b \in 0..Len(typed) : typed = Spaces(a) \o message \o Spaces(b)

\* the calls of chatAPI.sendMessage a step makes
NewSendMessages ==
    { i \in (Len(requests) + 1)..Len(requests') : requests'[i].api = "sendMessage" }

C19_EverySendIsTypedInput ==
    \A i \in NewSendMessages : IsTrimmed(requests'[i].body.message, chatBot.inputMessage)

C19_FormSendIsTypedInput ==
    \A i \in NewSendMessages :
        \/ /\ requests'[i].origin = "handleSendMessage"
           /\ IsTrimmed(requests'[i].body.message, chatBot.inputMessage)
        \/ /\ requests'[i].origin = "sendInitialGreeting"
           /\ requests'[i].body.message = "Hello"
           /\ ~chatBot.mounted

FormSends(reqs) == { i \in DOMAIN reqs : reqs[i].origin = "handleSendMessage" }

\* isTyping is true exactly while one request of the form is in flight
C20_TypingIffInFlight ==
    /\ Cardinality(FormSends(requests)) <= 1
    /\ chatBot.isTyping <=> FormSends(requests) # {}

\* the form sends only when isTyping is false, and the step that consumes the
\* outcome of its request, a reply or a failure, sets isTyping to false
C20_SendAndSettle ==
    /\ (\E i \in NewSendMessages : requests'[i].origin = "handleSendMessage")
            => (~chatBot.isTyping /\ FormSends(requests) = {})
    /\ Cardinality(FormSends(requests')) < Cardinality(FormSends(requests))
            => ~chatBot'.isTyping

\* C20: while a send of the form is in flight (isTyping is true) the form
\* issues no second sendMessage, and when the request settles, with a reply or
\* with a failure, isTyping is false again, so that the form can send again.
C20_OneSendAtATime == [](C20_TypingIffInFlight) /\ [][C20_SendAndSettle]_vars

\* a send of the form failed, its error message is displayed, and the next
\* send of the form is in flight
C20_Witness ==
    /\ chatBot.isTyping
    /\ \E i \in DOMAIN requests :
            requests[i].origin = "handleSendMessage" /\ requests[i].stage = "sent"
    /\ \E j \in DOMAIN chatBot.messages : chatBot.messages[j].message = errorMessage

\* the step in which handleSendMessage consumes the failure of its request i
SendFails(i) ==
    /\ i \in FormSends(requests)
    /\ requests[i].stage = "answered"
    /\ ~requests[i].ok
    /\ FormSends(requests') = {}

C21_FailureStep ==
    \A i \in DOMAIN requests :
        SendFails(i) =>
            /\ \E j \in DOMAIN chatBot.messages : chatBot.messages[j] = requests[i].local.tempUserMessage
            /\ chatBot'.messages =
                    Append(chatBot.messages, [type |-> "bot", message |-> errorMessage])

\* C21: when a sendMessage request of the form fails, the user's message is
\* still in the displayed list, exactly one bot error message is appended
\* behind it and no other displayed message is removed or changed.
C21_FailureKeepsUserMessage == [][C21_FailureStep]_vars

(***************************************************************************)
(* Properties of the App component and of HealthMetricsForm.               *)
(***************************************************************************)
\* the requests of initializeApp that are under way
InitRequests(reqs) == {i \in DOMAIN reqs : reqs[i].origin = "initializeApp"}

\* initializeApp has run to its end
InitEnded == app.mounted /\ InitRequests(requests) = {}

C22_EndState ==
    /\ InitEnded => /\ ~app.loading
                    /\ app.serverStatus \in {"online", "offline"}
    /\ app.serverStatus = "offline" => app.healthData = <<>>
    /\ app.loading => app.healthData = <<>>

C22_EndStep ==
    \A i \in InitRequests(requests) :
        (/\ requests[i].stage = "answered"
         /\ (Len(requests') < Len(requests) \/ requests'[i].stage = "sent")) =>
            /\ ~requests[i].ok =>
                    /\ InitRequests(requests') = {}
                    /\ app'.serverStatus = "offline"
            /\ (requests[i].ok /\ requests[i].api = "getHealthData") =>
                    /\ InitRequests(requests') = {}
                    /\ app'.serverStatus = "online"
            /\ (requests[i].ok /\ requests[i].api = "checkServerHealth") =>
                    /\ InitRequests(requests') # {}
                    /\ app'.loading

\* the steps initializeApp has still to take at most
StepsLeft(a, reqs) ==
    IF ~a.mounted THEN 5
    ELSE IF InitRequests(reqs) = {} THEN 0
    ELSE LET r == reqs[CHOOSE i \in InitRequests(reqs) : TRUE]
         IN  (IF r.api = "checkServerHealth" THEN 2 ELSE 0)
                + (IF r.stage = "sent" THEN 2 ELSE 1)

\* every step of initializeApp brings it nearer to its end
C22_Nearer ==
    initializeAppVars' # initializeAppVars =>
        StepsLeft(app', requests') < StepsLeft(app, requests)

\* C22: the start of App always comes to its end, and at its end loading is
\* false: until the end a step of initializeApp can be taken, and every such
\* step leaves fewer steps to take.  The status is 'online' exactly when the
\* health check and the load of the data have both succeeded, and 'offline'
\* when one of them has failed, and then healthData is still empty.
C22_InitializeAppEnds ==
    /\ [](C22_EndState /\ (InitEnded \/ ENABLED initializeAppStep))
    /\ [][C22_EndStep /\ C22_Nearer]_vars

\* the health check has succeeded, the load of the data has failed while the
\* server holds records of the user: the App is offline with no data
C22_Witness ==
    /\ InitEnded
    /\ ~app.loading
    /\ app.serverStatus = "offline"
    /\ app.healthData = <<>>
    /\ GetOrEmpty(healthData, AppUserId) # <<>>
    /\ res.op = "getHealth"

\* what tells the requests under way apart: who awaits them and how far they are
Key(r) == <<r.origin, r.api, r.stage, r.ok>>

Keys(reqs) == [j \in DOMAIN reqs |-> Key(reqs[j])]

\* the requests under way that origin awaits
RequestsOf(origin, reqs) == {j \in DOMAIN reqs : reqs[j].origin = origin}

\* the step is the continuation of one request that origin awaits
Settles(origin) ==
    Cardinality(RequestsOf(origin, requests')) < Cardinality(RequestsOf(origin, requests))

\* a successful submission is followed by the fetch of handleMetricAdded, and the
\* record it wrote is in the store
C23_SubmitStep ==
    Settles("handleSubmit") =>
        \E i \in RequestsOf("handleSubmit", requests) :
            /\ requests[i].stage = "answered"
            /\ IF requests[i].ok
               THEN /\ Keys(requests') = Append(RemoveAt(Keys(requests), i),
                                                Key(getHealthData("handleMetricAdded")))
                    /\ \E j \in DOMAIN GetOrEmpty(healthData, AppUserId) :
                            healthData[AppUserId][j] = requests[i].data.data
               ELSE Keys(requests') = RemoveAt(Keys(requests), i)

\* the fetch of handleMetricAdded is answered with the list of the user
C23_FetchStep ==
    \A i \in RequestsOf("handleMetricAdded", requests) :
        (/\ requests[i].stage = "sent"
         /\ Len(requests') = Len(requests)
         /\ requests'[i].stage = "answered"
         /\ requests'[i].ok) =>
            requests'[i].data = GetOrEmpty(healthData, AppUserId)

\* after the fetch healthData is the list fetched, and after a failed fetch
\* the state of App is as before
C23_RefreshStep ==
    Settles("handleMetricAdded") =>
        \E i \in RequestsOf("handleMetricAdded", requests) :
            /\ requests[i].stage = "answered"
            /\ Keys(requests') = RemoveAt(Keys(requests), i)
            /\ IF requests[i].ok
               THEN app'.healthData = requests[i].data
               ELSE app' = app

\* C23: every successful submission of the form is followed by a fetch of the
\* user's measurements; when the fetch succeeds healthData is the list the
\* server held for the user when it answered, which holds the record just
\* written; when it fails healthData and the server status stay as they were.
C23_RefreshAfterSubmit == [][C23_SubmitStep /\ C23_FetchStep /\ C23_RefreshStep]_vars

\* the fetches of handleMetricAdded under way: one for each call of
\* onMetricAdded that is not yet settled
OnMetricAddedCalls(reqs) == Cardinality(RequestsOf("handleMetricAdded", reqs))

\* the form sends a metric only with a type and a value, and sets isSubmitting
C24_SubmitStep ==
    Cardinality(RequestsOf("handleSubmit", requests'))
            > Cardinality(RequestsOf("handleSubmit", requests)) =>
        /\ metricsForm.formData.type # ""
        /\ metricsForm.formData.value # ""
        /\ Len(requests') = Len(requests) + 1
        /\ requests'[Len(requests')].api = "addHealthMetric"
        /\ requests'[Len(requests')].body.type = metricsForm.formData.type
        /\ metricsForm'.isSubmitting
        /\ OnMetricAddedCalls(requests') = OnMetricAddedCalls(requests)

\* the end of a submission: one call of onMetricAdded with the form reset and
\* closed after a success, no call with the form as it is after a failure,
\* and isSubmitting false after both (a form that was unmounted meanwhile has
\* no state to set)
C24_SettleStep ==
    Settles("handleSubmit") =>
        \E i \in RequestsOf("handleSubmit", requests) :
            /\ requests[i].stage = "answered"
            /\ OnMetricAddedCalls(requests') =
                    OnMetricAddedCalls(requests) + (IF requests[i].ok THEN 1 ELSE 0)
            /\ Len(requests') = Len(requests) - (IF requests[i].ok THEN 0 ELSE 1)
            /\ IF ~requests[i].local.mounted THEN metricsForm' = metricsForm
               ELSE IF requests[i].ok THEN metricsForm' = formInitial
               ELSE /\ metricsForm'.isOpen = metricsForm.isOpen
                    /\ metricsForm'.formData = metricsForm.formData
                    /\ ~metricsForm'.isSubmitting

\* onMetricAdded is called by the end of a submission only
C24_CallStep ==
    OnMetricAddedCalls(requests') > OnMetricAddedCalls(requests) =>
        Settles("handleSubmit")

\* isSubmitting is true exactly while a submission of the form shown is under
\* way
C24_Submitting ==
    metricsForm.isSubmitting <=>
        \E i \in RequestsOf("handleSubmit", requests) : requests[i].local.mounted

\* C24: HealthMetricsForm calls addHealthMetric only when type and value are
\* both non-empty; onMetricAdded is called exactly once after each successful
\* addHealthMetric, with the form reset and closed, and is not called for a
\* failed or a blocked submission, which leaves the form and its entered data
\* as they are; isSubmitting is true only while a submission is under way and
\* is false after its end.
C24_SubmitContract ==
    /\ []C24_Submitting
    /\ [][C24_SubmitStep /\ C24_SettleStep /\ C24_CallStep]_vars

\* a submission has just succeeded: the server has stored the record, the
\* form is reset and closed and one call of onMetricAdded is under way
C24_Witness ==
    /\ res.op = "postHealthData"
    /\ res.status = 201
    /\ OnMetricAddedCalls(requests) = 1
    /\ RequestsOf("handleSubmit", requests) = {}
    /\ metricsForm = formInitial
    /\ app.route = "/add-metric"

(***************************************************************************)
(* Properties of the mount of the ChatBot component.                       *)
(***************************************************************************)
\* the turns the server holds for the session of the component
StoredTurns == GetOrEmpty(conversations, ChatBotProps.sessionId)

C25_MountStep ==
    (~chatBot.mounted /\ chatBot'.mounted) =>
        (RequestsOf("sendInitialGreeting", requests') # {} <=> StoredTurns = <<>>)

\* C25: the component sends its greeting 'Hello' when it is mounted exactly
\* when the server holds no turn of its session; mounted on a session with
\* stored turns it sends none, so the mount adds nothing to the conversation
\* of the session.
C25_GreetingOnlyWithoutHistory == [][C25_MountStep]_vars

(***************************************************************************)
(* Properties of the order of the records.                                 *)
(***************************************************************************)
\* the types of the records of a list
TypesOf(data) == {data[i].type : i \in DOMAIN data}

\* C26: for every type with at least 2 records generateHealthInsights
\* compares the record of the earliest timestamp with the record of the
\* latest timestamp, whatever the order of insertion, and counts the records
\* of the type; the reply to a metric query names the value of the record
\* inserted last, whatever its timestamp.
C26_TrendByTimestampLatestByInsertion ==
    /\ res.op = "generateHealthInsights" =>
        \A type \in TypesOf(res.req) :
            LET records == GroupOf(res.req, type)
            IN  IF Len(records) >= 2
                THEN /\ type \in DOMAIN res.body.trends
                     /\ res.body.trends[type].change =
                            LatestOf(records).value.n - EarliestOf(records).value.n
                     /\ res.body.trends[type].recordCount = Len(records)
                ELSE type \notin DOMAIN res.body.trends
    /\ (res.op = "generateResponse" /\ res.message = "my weight"
            /\ GroupOf(res.req, "weight") # <<>>) =>
        LET records == GroupOf(res.req, "weight")
        IN  res.body = "Your latest weight is "
                            \o NatToString(records[Len(records)].value.n)
                            \o " kg. " \o weightAdvice

\* the later weight was inserted first: the trend runs from the record
\* inserted last to the record inserted first
C26_Witness ==
    /\ res.op = "generateHealthInsights"
    /\ Len(res.req) = 2
    /\ res.req[1].type = "weight" /\ res.req[2].type = "weight"
    /\ res.req[1].timestamp > res.req[2].timestamp
    /\ res.req[1].value.n = 72 /\ res.req[2].value.n = 70
    /\ res.body.trends["weight"].change = 2
    /\ res.body.trends["weight"].direction = "increase"

\* the records of a list are in the order of their timestamps, and so are the
\* records of each type: the earliest is the first inserted and the latest the
\* last inserted, and the sort of generateHealthInsights moves nothing
InTimestampOrder(list) ==
    /\ \A i, j \in DOMAIN list : i <= j => list[i].timestamp <= list[j].timestamp
    /\ \A type \in TypesOf(list) :
            LET group == GroupOf(list, type)
            IN  /\ EarliestOf(group) = group[1]
                /\ LatestOf(group) = group[Len(group)]
                /\ SortByTimestamp(group) = group

BotMessage(data) == [type |-> "bot", message |-> data.response]

\* how often the list shows a message of the user with this text
TimesShown(messages, text) ==
    Cardinality({j \in DOMAIN messages :
                    messages[j].type = "user" /\ messages[j].message = text})

\* the step ends a send of the form that has succeeded
SendSucceeds(i) ==
    /\ i \in FormSends(requests)
    /\ requests[i].stage = "answered"
    /\ requests[i].ok
    /\ FormSends(requests') = {}

\* after a successful send the list is the list displayed before the send with
\* the message of the user and the reply behind it
C28_SuccessStep ==
    \A i \in DOMAIN requests :
        SendSucceeds(i) =>
            chatBot'.messages =
                requests[i].local.displayed
                    \o <<requests[i].local.tempUserMessage, BotMessage(requests[i].data)>>

\* a successful send drops no message that was displayed, the last one apart
\* when it is the message of the user that the send had appended
C28_NothingDropped ==
    \A i \in DOMAIN requests :
        SendSucceeds(i) =>
            \A j \in DOMAIN chatBot.messages :
                (j < Len(chatBot.messages)
                    \/ chatBot.messages[j] # requests[i].local.tempUserMessage) =>
                    \E k \in DOMAIN chatBot'.messages :
                        chatBot'.messages[k] = chatBot.messages[j]

\* a successful send shows the message of the user once more than the list
\* displayed before the send did
C28_NotDuplicated ==
    \A i \in DOMAIN requests :
        SendSucceeds(i) =>
            TimesShown(chatBot'.messages, requests[i].local.tempUserMessage.message)
                = TimesShown(requests[i].local.displayed,
                             requests[i].local.tempUserMessage.message) + 1

\* C28: after a send of the form has succeeded the displayed list is the list
\* displayed just before the send followed by the message of the user and the
\* reply of the bot, whenever the requests of the mount are answered: no
\* message that was displayed is dropped and the message of the user is shown
\* once.
C28_SendAppendsExchange ==
    [][C28_SuccessStep /\ C28_NothingDropped /\ C28_NotDuplicated]_vars

(***************************************************************************)
(* Properties of the keys of the stores.                                   *)
(***************************************************************************)
\* the users and the sessions of the requests and of the stores
KnownUsers == DOMAIN healthData \cup DOMAIN healthData' \cup ApiParams \cup {"default"}

KnownSessions == DOMAIN conversations \cup DOMAIN conversations' \cup ApiSessions

\* a write for a user leaves the list of every other user and every session
C29_WriteStep ==
    (res'.op = "postHealthData" /\ nextId' # nextId) =>
        /\ \A userId \in KnownUsers \ {UserOfBody(res'.req)} :
                GetOrEmpty(healthData', userId) = GetOrEmpty(healthData, userId)
        /\ conversations' = conversations

\* a chat in a session leaves the history of every other session and every
\* list of records, and its reply is the reply to the message over the
\* records of the user of the request
C29_ChatStep ==
    (res'.op = "chat" /\ res'.status = 200 /\ conversations' # conversations) =>
        /\ \A sessionId \in KnownSessions \ {SessionOfBody(res'.req)} :
                GetOrEmpty(conversations', sessionId) = GetOrEmpty(conversations, sessionId)
        /\ healthData' = healthData
        /\ \E r \in RandomDraws :
                res'.body.response =
                    generateResponse(res'.req.message,
                        GetOrEmpty(healthData, UserOfBody(res'.req)), r)

C30_LatestEntry ==
    app.healthData # <<>> =>
        \A j \in DOMAIN app.healthData :
            app.healthData[j].id <= app.healthData[Len(app.healthData)].id

\* a visit of a page leaves healthData as it is
C30_VisitStep == app'.route # app.route => app'.healthData = app.healthData

\* C30: rendering the home page never changes the order of the healthData
\* list of App: after any visits of pages and refreshes the last element of
\* healthData, the 'Latest Entry' of the dashboard, is the record inserted
\* last.
C30_RenderKeepsOrder == []C30_LatestEntry /\ [][C30_VisitStep]_vars

====
